---- MODULE Spec2Model ----
(***************************************************************************)
(* Silver-layer enrichment engine: the wafer-production calculator         *)
(* (src/wafer_production.py) and the state-hours calculator                *)
(* (src/state_hours.py).                                                   *)
(*                                                                         *)
(* Representation.  A string that the code inspects (a column name, a      *)
(* keyword) is a sequence of one-character strings, so that `in` and       *)
(* `endswith` are computed.  A nullable value (None / NaN) is the empty    *)
(* sequence, a present value v is <<v>>.  A pandas row is a record with    *)
(* its index (the column names, in column order) and its values.  A date   *)
(* is the number year*10000 + month*100 + day, which orders as dates do.   *)
(* A float quotient is the reduced fraction <<numerator, denominator>>.    *)
(***************************************************************************)
EXTENDS Integers, Sequences, FiniteSets, TLC

VARIABLES pc, keywords_arg, row_arg, counter_found,
          current_row, previous_row, running_hours_arg, result,
          entity_states_df, state_hours_df, counters_df, sorted_df, results,
          production_df,
          state_config, entity_state_arg, state_category, rerun_df,
          ingestion, files_to_process, file_idx, all_dfs, combined_df

\* the arguments and the result of a classify_state call
classifyVars == <<state_config, entity_state_arg, state_category>>

\* the state of an ingestion's load_all_files
ingestVars == <<ingestion, files_to_process, file_idx, all_dfs, combined_df>>

vars == <<pc, keywords_arg, row_arg, counter_found,
          current_row, previous_row, running_hours_arg, result,
          entity_states_df, state_hours_df, counters_df, sorted_df, results,
          production_df, rerun_df, classifyVars, ingestVars>>

----------------------------------------------------------------------------
(* Nullable values *)

None == <<>>

Some(v) == <<v>>

notna(x) == x # None

isna(x) == x = None

Val(x) == x[1]

----------------------------------------------------------------------------
(* Strings as character sequences *)

Counter == <<"C", "o", "u", "n", "t", "e", "r">>

Focus == <<"F", "o", "c", "u", "s">>

APC == <<"A", "P", "C">>

ESC == <<"E", "S", "C">>

Apc == <<"A", "p", "c">>

Esc == <<"E", "s", "c">>

FocusCounter == Focus \o Counter

APCCounter == APC \o Counter

ESCCounter == ESC \o Counter

XApcCounter == <<"X">> \o Apc \o Counter

XApcCounter2 == XApcCounter \o <<"2">>

EscApcCounter == Esc \o Apc \o Counter

EscCounter == Esc \o Counter

\* Python `keyword in col`
Contains(keyword, col) ==
    \E i \in 0..(Len(col) - Len(keyword)) :
        SubSeq(col, i + 1, i + Len(keyword)) = keyword

\* Python `col.endswith(suffix)`
EndsWith(col, suffix) ==
    /\ Len(col) >= Len(suffix)
    /\ SubSeq(col, Len(col) - Len(suffix) + 1, Len(col)) = suffix

----------------------------------------------------------------------------
(* Rows *)

\* position of a column in a row's index (0 when absent)
Pos(index, col) ==
    IF \E i \in 1..Len(index) : index[i] = col
    THEN CHOOSE i \in 1..Len(index) : index[i] = col
    ELSE 0

\* row[col]
Get(row, col) == row.vals[Pos(row.index, col)]

InIndex(row, col) == Pos(row.index, col) # 0

----------------------------------------------------------------------------
(* Configuration *)

primary_keywords == <<Focus>>

fallback_keywords == <<APC, ESC>>

replacement_threshold == 0 - 1000

----------------------------------------------------------------------------
(* Counter Discovery: WaferProductionCalculator.find_counter_column *)

Matches(keyword, col) == Contains(keyword, col) /\ EndsWith(col, Counter)

matching_cols(row, keyword) ==
    SelectSeq(row.index, LAMBDA col : Matches(keyword, col))

Usable_NonNegative(value) == notna(value) /\ Val(value) >= 0

Usable(value) == notna(value) /\ Val(value) > 0

RECURSIVE FirstUsable(_, _, _)
FirstUsable(row, cols, i) ==
    IF i > Len(cols) THEN None
    ELSE IF Usable(Get(row, cols[i])) THEN Some(cols[i])
    ELSE FirstUsable(row, cols, i + 1)

RECURSIVE FindFrom(_, _, _)
FindFrom(row, keywords, k) ==
    IF k > Len(keywords) THEN None
    ELSE LET hit == FirstUsable(row, matching_cols(row, keywords[k]), 1)
         IN  IF notna(hit)
             THEN Some([col |-> Val(hit), value |-> Val(Get(row, Val(hit))),
                        keyword |-> keywords[k]])
             ELSE FindFrom(row, keywords, k + 1)

find_counter_column(row, keywords) == FindFrom(row, keywords, 1)

----------------------------------------------------------------------------
(* Float division as a reduced fraction *)

RECURSIVE GCD(_, _)
GCD(a, b) == IF b = 0 THEN a ELSE GCD(b, a % b)

\* a / b for a >= 0, b > 0
Quotient(a, b) == LET g == GCD(a, b) IN <<a \div g, b \div g>>

----------------------------------------------------------------------------
(* Production Differencer, one row:                                        *)
(* WaferProductionCalculator.calculate_wafer_production_single_row         *)

InitialResult(cur, hours) ==
    [ENTITY |-> cur.ENTITY,
     counter_date |-> cur.counter_date,
     counter_column_used |-> None,
     counter_keyword_used |-> None,
     counter_current_value |-> None,
     counter_previous_value |-> None,
     counter_change |-> None,
     part_replacement_detected |-> FALSE,
     wafers_produced |-> None,
     running_hours |-> hours,
     wafers_per_hour |-> None,
     calculation_notes |-> <<>>]

Note(res, text) ==
    [res EXCEPT !.calculation_notes = Append(@, text)]

detect_part_replacement_Inclusive(change) == change <= replacement_threshold

detect_part_replacement(change) == change < replacement_threshold

\* lines 231-249: the fallback counter is tried when the keyword that
\* selected the counter is a primary keyword
TryFallback_StrictlyPositive(res, cur, prev, keyword) ==
    IF \E i \in 1..Len(primary_keywords) : primary_keywords[i] = keyword
    THEN LET fallback_found == find_counter_column(cur, fallback_keywords)
         IN  IF notna(fallback_found)
             THEN LET fb == Val(fallback_found)
                  IN  IF InIndex(prev, fb.col)
                      THEN LET prev_fallback == Get(prev, fb.col)
                           IN  IF notna(prev_fallback)
                               THEN LET change == fb.value - Val(prev_fallback)
                                    IN  IF change > 0
                                        THEN Note([res EXCEPT
                                               !.counter_column_used = Some(fb.col),
                                               !.counter_keyword_used = Some(fb.keyword),
                                               !.counter_current_value = Some(fb.value),
                                               !.counter_previous_value = prev_fallback,
                                               !.counter_change = Some(change)],
                                               "Used fallback counter")
                                        ELSE res
                               ELSE res
                      ELSE res
             ELSE res
    ELSE res

\* the fallback pair is taken whatever the sign of its change
TryFallback_AnySign(res, cur, prev, keyword) ==
    IF \E i \in 1..Len(primary_keywords) : primary_keywords[i] = keyword
    THEN LET fallback_found == find_counter_column(cur, fallback_keywords)
         IN  IF notna(fallback_found)
             THEN LET fb == Val(fallback_found)
                  IN  IF InIndex(prev, fb.col)
                      THEN LET prev_fallback == Get(prev, fb.col)
                           IN  IF notna(prev_fallback)
                               THEN Note([res EXCEPT
                                      !.counter_column_used = Some(fb.col),
                                      !.counter_keyword_used = Some(fb.keyword),
                                      !.counter_current_value = Some(fb.value),
                                      !.counter_previous_value = prev_fallback,
                                      !.counter_change =
                                          Some(fb.value - Val(prev_fallback))],
                                      "Used fallback counter")
                               ELSE res
                      ELSE res
             ELSE res
    ELSE res

\* the fallback is tried whatever keyword selected the counter, the
\* fallback keywords taken from the last to the first
TryFallback_AnyKeyword(res, cur, prev, keyword) ==
    LET reversed == [i \in 1..Len(fallback_keywords) |->
                        fallback_keywords[Len(fallback_keywords) + 1 - i]]
        fallback_found == find_counter_column(cur, reversed)
    IN  IF notna(fallback_found)
        THEN LET fb == Val(fallback_found)
             IN  IF InIndex(prev, fb.col)
                 THEN LET prev_fallback == Get(prev, fb.col)
                      IN  IF notna(prev_fallback)
                          THEN LET change == fb.value - Val(prev_fallback)
                               IN  IF change >= 0
                                   THEN Note([res EXCEPT
                                          !.counter_column_used = Some(fb.col),
                                          !.counter_keyword_used = Some(fb.keyword),
                                          !.counter_current_value = Some(fb.value),
                                          !.counter_previous_value = prev_fallback,
                                          !.counter_change = Some(change)],
                                          "Used fallback counter")
                                   ELSE res
                          ELSE res
                 ELSE res
        ELSE res

\* every fallback counter of the current row is tried, in column order,
\* until one has a non-negative change
TryFallback_TriesEveryColumn(res, cur, prev, keyword) ==
    LET usable == {j \in 1..Len(cur.index) :
                      /\ \E k \in 1..Len(fallback_keywords) :
                             Matches(fallback_keywords[k], cur.index[j])
                      /\ Usable(cur.vals[j])
                      /\ InIndex(prev, cur.index[j])
                      /\ notna(Get(prev, cur.index[j]))
                      /\ Val(cur.vals[j]) - Val(Get(prev, cur.index[j])) >= 0}
    IN  IF (\E i \in 1..Len(primary_keywords) : primary_keywords[i] = keyword)
           /\ usable # {}
        THEN LET j == CHOOSE j \in usable : \A o \in usable : j <= o
                 k == CHOOSE k \in 1..Len(fallback_keywords) :
                          Matches(fallback_keywords[k], cur.index[j])
             IN  Note([res EXCEPT
                        !.counter_column_used = Some(cur.index[j]),
                        !.counter_keyword_used = Some(fallback_keywords[k]),
                        !.counter_current_value = cur.vals[j],
                        !.counter_previous_value = Get(prev, cur.index[j]),
                        !.counter_change =
                            Some(Val(cur.vals[j]) - Val(Get(prev, cur.index[j])))],
                      "Used fallback counter")
        ELSE res

\* the switch to the fallback pair leaves the primary counter's previous
\* value in the result
TryFallback_KeepsPreviousValue(res, cur, prev, keyword) ==
    IF \E i \in 1..Len(primary_keywords) : primary_keywords[i] = keyword
    THEN LET fallback_found == find_counter_column(cur, fallback_keywords)
         IN  IF notna(fallback_found)
             THEN LET fb == Val(fallback_found)
                  IN  IF InIndex(prev, fb.col)
                      THEN LET prev_fallback == Get(prev, fb.col)
                           IN  IF notna(prev_fallback)
                               THEN LET change == fb.value - Val(prev_fallback)
                                    IN  IF change >= 0
                                        THEN Note([res EXCEPT
                                               !.counter_column_used = Some(fb.col),
                                               !.counter_keyword_used = Some(fb.keyword),
                                               !.counter_current_value = Some(fb.value),
                                               !.counter_change = Some(change)],
                                               "Used fallback counter")
                                        ELSE res
                               ELSE res
                      ELSE res
             ELSE res
    ELSE res

\* a successful switch to the fallback pair withdraws the replacement flag
TryFallback_ClearsFlag(res, cur, prev, keyword) ==
    IF \E i \in 1..Len(primary_keywords) : primary_keywords[i] = keyword
    THEN LET fallback_found == find_counter_column(cur, fallback_keywords)
         IN  IF notna(fallback_found)
             THEN LET fb == Val(fallback_found)
                  IN  IF InIndex(prev, fb.col)
                      THEN LET prev_fallback == Get(prev, fb.col)
                           IN  IF notna(prev_fallback)
                               THEN LET change == fb.value - Val(prev_fallback)
                                    IN  IF change >= 0
                                        THEN Note([res EXCEPT
                                               !.part_replacement_detected = FALSE,
                                               !.counter_column_used = Some(fb.col),
                                               !.counter_keyword_used = Some(fb.keyword),
                                               !.counter_current_value = Some(fb.value),
                                               !.counter_previous_value = prev_fallback,
                                               !.counter_change = Some(change)],
                                               "Used fallback counter")
                                        ELSE res
                               ELSE res
                      ELSE res
             ELSE res
    ELSE res

TryFallback(res, cur, prev, keyword) ==
    IF \E i \in 1..Len(primary_keywords) : primary_keywords[i] = keyword
    THEN LET fallback_found == find_counter_column(cur, fallback_keywords)
         IN  IF notna(fallback_found)
             THEN LET fb == Val(fallback_found)
                  IN  IF InIndex(prev, fb.col)
                      THEN LET prev_fallback == Get(prev, fb.col)
                           IN  IF notna(prev_fallback)
                               THEN LET change == fb.value - Val(prev_fallback)
                                    IN  IF change >= 0
                                        THEN Note([res EXCEPT
                                               !.counter_column_used = Some(fb.col),
                                               !.counter_keyword_used = Some(fb.keyword),
                                               !.counter_current_value = Some(fb.value),
                                               !.counter_previous_value = prev_fallback,
                                               !.counter_change = Some(change)],
                                               "Used fallback counter")
                                        ELSE res
                               ELSE res
                      ELSE res
             ELSE res
    ELSE res

\* lines 251-254
ClampIfNegative_Never(res) == res

ClampIfNegative(res) ==
    IF Val(res.counter_change) < 0
    THEN Note([res EXCEPT !.counter_change = Some(0)],
              "Counter change set to 0 (part replacement)")
    ELSE res

\* lines 222-254
NegativeChange(res, cur, prev, keyword, change) ==
    IF change < 0
    THEN IF detect_part_replacement(change)
         THEN ClampIfNegative(
                  TryFallback(
                      Note([res EXCEPT !.part_replacement_detected = TRUE],
                           "Part replacement"),
                      cur, prev, keyword))
         ELSE res
    ELSE res

\* lines 256-266
WafersAndRate_AnyChange(res, hours) ==
    IF notna(res.counter_change)
    THEN LET r == [res EXCEPT !.wafers_produced = res.counter_change]
         IN  IF hours > 0 /\ Val(r.wafers_produced) >= 0
             THEN [r EXCEPT !.wafers_per_hour =
                       Some(Quotient(Val(r.wafers_produced), hours))]
             ELSE Note(r, "No running hours - cannot calculate wafers/hour")
    ELSE res

WafersAndRate(res, hours) ==
    IF notna(res.counter_change) /\ Val(res.counter_change) >= 0
    THEN LET r == [res EXCEPT !.wafers_produced = res.counter_change]
         IN  IF hours > 0
             THEN [r EXCEPT !.wafers_per_hour =
                       Some(Quotient(Val(r.wafers_produced), hours))]
             ELSE Note(r, "No running hours - cannot calculate wafers/hour")
    ELSE res

\* lines 203-220
ChangeFromPrevious_Reversed(cur, prev, col, current_val) ==
    Val(Get(prev, col)) - current_val

ChangeFromPrevious(cur, prev, col, current_val) ==
    current_val - Val(Get(prev, col))

\* lines 204-206
FirstDay(res, cur, hours) == Note(res, "First day - no previous value")

\* lines 208-216: the discovered column is not in the previous row, or is
\* null there; the result is returned with the note
MissingPrevious_AsZero(res, cur, prev, hours, text) ==
    WafersAndRate([res EXCEPT !.counter_previous_value = Some(0),
                              !.counter_change = res.counter_current_value],
                  hours)

MissingPrevious(res, cur, prev, hours, text) == Note(res, text)

calculate_wafer_production_single_row(cur, prev_opt, hours) ==
    LET result0 == InitialResult(cur, hours)
        all_keywords == primary_keywords \o fallback_keywords
        found == find_counter_column(cur, all_keywords)
    IN  IF isna(found)
        THEN Note(result0, "No counter found with any keyword")
        ELSE
        LET f == Val(found)
            result1 == [result0 EXCEPT
                           !.counter_column_used = Some(f.col),
                           !.counter_keyword_used = Some(f.keyword),
                           !.counter_current_value = Some(f.value)]
        IN  IF isna(prev_opt)
            THEN FirstDay(result1, cur, hours)
            ELSE
            LET prev == Val(prev_opt)
            IN  IF ~InIndex(prev, f.col)
                THEN MissingPrevious(result1, cur, prev, hours,
                                     "Counter not in previous row")
                ELSE IF isna(Get(prev, f.col))
                THEN MissingPrevious(result1, cur, prev, hours,
                                     "Previous value is null")
                ELSE
                LET change == ChangeFromPrevious(cur, prev, f.col, f.value)
                    result2 == [result1 EXCEPT
                                   !.counter_previous_value = Get(prev, f.col),
                                   !.counter_change = Some(change)]
                IN  WafersAndRate(
                        NegativeChange(result2, cur, prev, f.keyword, change),
                        hours)

----------------------------------------------------------------------------
(* Ordering of the key values.  ENTITY and FAB are strings that the code   *)
(* only compares and sorts; their lexicographic order is the order of      *)
(* this list.                                                              *)

StringOrder == <<"E1", "E2", "F1", "F2">>

Rank(str) == CHOOSE i \in 1..Len(StringOrder) : StringOrder[i] = str

\* lexicographic comparison of two equally long tuples of numbers
RECURSIVE TupleLess(_, _, _)
TupleLess(a, b, i) ==
    IF i > Len(a) THEN FALSE
    ELSE IF a[i] < b[i] THEN TRUE
    ELSE IF a[i] > b[i] THEN FALSE
    ELSE TupleLess(a, b, i + 1)

\* the sort key of a row for the columns it is sorted by
SortKey(row, by) ==
    CASE by = "ENTITY, counter_date" -> <<Rank(row.ENTITY), row.counter_date>>
      [] by = "counter_date" -> <<row.counter_date>>
      [] by = "ENTITY, FAB, FAB_ENTITY, state_date" ->
             <<Rank(row.ENTITY), Rank(row.FAB), row.state_date>>

\* a row is inserted after the rows whose key is not greater
RECURSIVE InsertSorted(_, _, _)
InsertSorted(sorted, x, by) ==
    IF sorted = <<>> THEN <<x>>
    ELSE IF TupleLess(SortKey(x, by), SortKey(Head(sorted), by), 1)
    THEN <<x>> \o sorted
    ELSE <<Head(sorted)>> \o InsertSorted(Tail(sorted), x, by)

\* DataFrame.sort_values(by): rows with equal keys keep their order (pandas
\* sorts several columns with a stable sort; numpy's default sort of one
\* column is an insertion sort, which is stable, for the group sizes
\* modelled here)
RECURSIVE StableSort(_, _)
StableSort(df, by) ==
    IF df = <<>> THEN <<>>
    ELSE InsertSorted(StableSort(SubSeq(df, 1, Len(df) - 1), by),
                      df[Len(df)], by)

\* DataFrame.drop_duplicates(subset, keep='last'): keys[i] is the value of
\* the subset columns in df[i]
drop_duplicates_KeepFirst(df, keys) ==
    LET keep == {i \in 1..Len(df) : \A j \in 1..(i - 1) : keys[j] # keys[i]}
        F[i \in 0..Len(df)] ==
            IF i = 0 THEN <<>>
            ELSE IF i \in keep THEN Append(F[i - 1], df[i]) ELSE F[i - 1]
    IN  F[Len(df)]

drop_duplicates_last(df, keys) ==
    LET keep == {i \in 1..Len(df) :
                    \A j \in (i + 1)..Len(df) : keys[j] # keys[i]}
        F[i \in 0..Len(df)] ==
            IF i = 0 THEN <<>>
            ELSE IF i \in keep THEN Append(F[i - 1], df[i]) ELSE F[i - 1]
    IN  F[Len(df)]

----------------------------------------------------------------------------
(* State Classifier: StateHoursCalculator                                  *)

running_states == {<<"U", "P">>}

idle_states == {<<"I", "D", "L", "E">>}

bagged_state == <<"B", "A", "G">>

current_year == 2026

Digits == <<"0", "1", "2", "3", "4", "5", "6", "7", "8", "9">>

IsDigit(c) == \E i \in 1..10 : Digits[i] = c

DigitValue(c) == (CHOOSE i \in 1..10 : Digits[i] = c) - 1

RECURSIVE Number(_)
Number(str) ==
    IF str = <<>> THEN 0
    ELSE 10 * Number(SubSeq(str, 1, Len(str) - 1)) + DigitValue(str[Len(str)])

AllDigits(str) == \A i \in 1..Len(str) : IsDigit(str[i])

\* str.split(sep): the pieces between the separators
RECURSIVE Split(_, _)
Split(str, sep) ==
    IF \E i \in 1..Len(str) : str[i] = sep
    THEN LET i == CHOOSE i \in 1..Len(str) :
                      str[i] = sep /\ \A j \in 1..(i - 1) : str[j] # sep
         IN  <<SubSeq(str, 1, i - 1)>> \o Split(SubSeq(str, i + 1, Len(str)), sep)
    ELSE <<str>>

IsLeap(y) == (y % 4 = 0 /\ y % 100 # 0) \/ y % 400 = 0

DaysInMonth(y, m) ==
    IF m = 2 THEN (IF IsLeap(y) THEN 29 ELSE 28)
    ELSE IF m \in {4, 6, 9, 11} THEN 30 ELSE 31

\* strptime's %m and %d: one or two digits, in range
MonthToken(t) ==
    Len(t) \in {1, 2} /\ AllDigits(t) /\ Number(t) \in 1..12

DayToken(t) ==
    Len(t) \in {1, 2} /\ AllDigits(t) /\ Number(t) \in 1..31

MakeDate(y, m, d) ==
    IF d <= DaysInMonth(y, m) THEN Some(y * 10000 + m * 100 + d) ELSE None

\* datetime.strptime(date_part, '%m/%d/%Y').date(); None is ValueError
StrptimeFullYear(parts) ==
    IF Len(parts) = 3 /\ MonthToken(parts[1]) /\ DayToken(parts[2])
       /\ Len(parts[3]) = 4 /\ AllDigits(parts[3]) /\ Number(parts[3]) >= 1
    THEN MakeDate(Number(parts[3]), Number(parts[1]), Number(parts[2]))
    ELSE None

\* '%m/%d/%y': 69-99 are 1969-1999, 00-68 are 2000-2068
StrptimeTwoDigitYear(parts) ==
    IF Len(parts) = 3 /\ MonthToken(parts[1]) /\ DayToken(parts[2])
       /\ Len(parts[3]) = 2 /\ AllDigits(parts[3])
    THEN LET yy == Number(parts[3])
         IN  MakeDate(IF yy >= 69 THEN 1900 + yy ELSE 2000 + yy,
                      Number(parts[1]), Number(parts[2]))
    ELSE None

\* '%m/%d' builds the datetime in the default year 1900 (ValueError for a
\* day that 1900 does not have), then replace(year=current_year)
StrptimeNoYear_NoDayCheck(parts) ==
    IF Len(parts) = 2 /\ MonthToken(parts[1]) /\ DayToken(parts[2])
    THEN Some(current_year * 10000 + Number(parts[1]) * 100 + Number(parts[2]))
    ELSE None

StrptimeNoYear(parts) ==
    IF Len(parts) = 2 /\ MonthToken(parts[1]) /\ DayToken(parts[2])
       /\ Number(parts[2]) <= DaysInMonth(1900, Number(parts[1]))
    THEN MakeDate(current_year, Number(parts[1]), Number(parts[2]))
    ELSE None

parse_day_shift_to_date(day_shift) ==
    IF isna(day_shift) THEN None
    ELSE LET date_part == Split(Val(day_shift), "-")[1]
             parts == Split(date_part, "/")
         IN  IF notna(StrptimeFullYear(parts)) THEN StrptimeFullYear(parts)
             ELSE IF notna(StrptimeTwoDigitYear(parts))
             THEN StrptimeTwoDigitYear(parts)
             ELSE StrptimeNoYear(parts)

Whitespace == {" ", "\t", "\n", "\r"}

\* str.strip(): leading and trailing whitespace removed
RECURSIVE Strip(_)
Strip(str) ==
    IF str = <<>> THEN str
    ELSE IF Head(str) \in Whitespace THEN Strip(Tail(str))
    ELSE IF str[Len(str)] \in Whitespace
    THEN Strip(SubSeq(str, 1, Len(str) - 1))
    ELSE str

\* self.state_config as the batch runs are configured (lines 41-44)
ConfiguredStates ==
    [running_states |-> running_states, idle_states |-> idle_states,
     bagged_state |-> bagged_state]

\* StateHoursCalculator.classify_state, self being the configuration
classify_RunningFirst(self, entity_state) ==
    IF isna(entity_state) THEN "Down"
    ELSE LET state == Strip(Val(entity_state))
         IN  IF state \in self.running_states THEN "Running"
             ELSE IF state = self.bagged_state THEN "Bagged"
             ELSE IF state \in self.idle_states THEN "Idle"
             ELSE "Down"

classify(self, entity_state) ==
    IF isna(entity_state) THEN "Down"
    ELSE LET state == Strip(Val(entity_state))
         IN  IF state = self.bagged_state THEN "Bagged"
             ELSE IF state \in self.running_states THEN "Running"
             ELSE IF state \in self.idle_states THEN "Idle"
             ELSE "Down"

classify_state(entity_state) == classify(ConfiguredStates, entity_state)

\* the distinct elements of a sequence, in order of first occurrence
Distinct(seq) ==
    LET F[i \in 0..Len(seq)] ==
            IF i = 0 THEN <<>>
            ELSE IF \E j \in 1..(i - 1) : seq[j] = seq[i] THEN F[i - 1]
            ELSE Append(F[i - 1], seq[i])
    IN  F[Len(seq)]

\* lines 155-161: the records with their parsed date, unparseable ones dropped
WithStateDate(df) ==
    LET dated == [i \in 1..Len(df) |->
                     [rec |-> df[i],
                      state_date |-> parse_day_shift_to_date(df[i].DAY_SHIFT)]]
    IN  SelectSeq(dated, LAMBDA r : notna(r.state_date))

\* the records of an entity and date are grouped together under the first
\* fab, whatever their fab
GroupKey_IgnoresFab(r) ==
    [ENTITY |-> r.rec.ENTITY, FAB |-> "F1",
     FAB_ENTITY |-> <<"F1", "_", r.rec.ENTITY>>, state_date |-> Val(r.state_date)]

GroupKey(r) ==
    [ENTITY |-> r.rec.ENTITY, FAB |-> r.rec.FAB,
     FAB_ENTITY |-> r.rec.FAB_ENTITY, state_date |-> Val(r.state_date)]

\* the hours of the last record of the group and category, not their sum
SumHours_LastValue(dated, key, category) ==
    LET hits == {i \in 1..Len(dated) :
                    /\ dated[i].rec.ENTITY = key.ENTITY
                    /\ dated[i].rec.FAB = key.FAB
                    /\ dated[i].state_date = Some(key.state_date)
                    /\ classify_state(dated[i].rec.ENTITY_STATE) = category}
    IN  IF hits = {} THEN 0
        ELSE dated[CHOOSE i \in hits : \A j \in hits : j <= i].rec.HOURS_IN_STATE

\* lines 167-176: HOURS_IN_STATE summed over the records of one group and
\* one state category
RECURSIVE SumHours(_, _, _)
SumHours(dated, key, category) ==
    IF dated = <<>> THEN 0
    ELSE (IF GroupKey(Head(dated)) = key
             /\ classify_state(Head(dated).rec.ENTITY_STATE) = category
          THEN Head(dated).rec.HOURS_IN_STATE ELSE 0)
         + SumHours(Tail(dated), key, category)

\* lines 199-207
TotalHours_NoBagged(running, idle, down, bagged) == running + idle + down

TotalHours(running, idle, down, bagged) == running + idle + down + bagged

IsBagged(bagged, total) == bagged > 0

\* lines 178-207: one row of the pivot
PivotRow(dated, key) ==
    LET running == SumHours(dated, key, "Running")
        idle == SumHours(dated, key, "Idle")
        down == SumHours(dated, key, "Down")
        bagged == SumHours(dated, key, "Bagged")
        total == TotalHours(running, idle, down, bagged)
    IN  [ENTITY |-> key.ENTITY, FAB |-> key.FAB, FAB_ENTITY |-> key.FAB_ENTITY,
         state_date |-> key.state_date,
         running_hours |-> running, idle_hours |-> idle,
         down_hours |-> down, bagged_hours |-> bagged,
         total_hours |-> total, is_bagged |-> IsBagged(bagged, total)]

\* line 221: the subset of the deduplication
EntityDateKey_WithFab(row) == <<row.ENTITY, row.FAB, row.state_date>>

EntityDateKey(row) == <<row.ENTITY, row.state_date>>

\* line 156: the function works on a copy, so the caller's frame is as it
\* was; without the copy line 157 would add the state_date column to it
CallerFrame_NoCopy(df) ==
    [i \in 1..Len(df) |->
        df[i] @@ [state_date |-> parse_day_shift_to_date(df[i].DAY_SHIFT)]]

CallerFrame(df) == df

calculate_daily_state_hours(df) ==
    LET dated == WithStateDate(df)
        groups == Distinct([i \in 1..Len(dated) |-> GroupKey(dated[i])])
        keys == StableSort(groups, "ENTITY, FAB, FAB_ENTITY, state_date")
        state_hours_pivot == [i \in 1..Len(keys) |-> PivotRow(dated, keys[i])]
    IN  drop_duplicates_last(
            state_hours_pivot,
            [i \in 1..Len(keys) |-> EntityDateKey(state_hours_pivot[i])])

----------------------------------------------------------------------------
(* Production Differencer, the batch:                                      *)
(* WaferProductionCalculator.calculate_for_dataframe                       *)

\* line 289
SortCounters(df) == StableSort(df, "ENTITY, counter_date")

\* line 295: one entity's rows, in date order
entity_group(df, entity) ==
    StableSort(SelectSeq(df, LAMBDA r : r.ENTITY = entity), "counter_date")

\* lines 303-309
LookupRunningHours_DateOnly(state_hours, entity, date) ==
    LET rows == SelectSeq(state_hours, LAMBDA r : r.state_date = date)
    IN  IF Len(rows) > 0 THEN rows[1].running_hours ELSE 0

LookupRunningHours_Entity(state_hours, entity, date) ==
    LET rows == SelectSeq(state_hours, LAMBDA r : r.ENTITY = entity)
    IN  IF Len(rows) > 0 THEN rows[1].running_hours ELSE 0

LookupRunningHours(state_hours, entity, date) ==
    LET rows == SelectSeq(state_hours,
                          LAMBDA r : r.ENTITY = entity /\ r.state_date = date)
    IN  IF Len(rows) > 0 THEN rows[1].running_hours ELSE 0

\* line 300
PreviousRow_Self(df, group, idx) ==
    IF idx > 1 THEN Some(group[idx]) ELSE None

PreviousRow_AcrossEntities(df, group, idx) ==
    LET pos == CHOOSE i \in 1..Len(df) :
                   /\ df[i].ENTITY = group[1].ENTITY
                   /\ \A j \in 1..(i - 1) : df[j].ENTITY # group[1].ENTITY
    IN  IF pos + idx - 2 >= 1 THEN Some(df[pos + idx - 2]) ELSE None

\* the previous row is the nearest earlier row on which a counter is found
PreviousRow_SkipsNoCounter(df, group, idx) ==
    LET found == {j \in 1..(idx - 1) :
                     notna(find_counter_column(
                               group[j], primary_keywords \o fallback_keywords))}
    IN  IF found = {} THEN None
        ELSE Some(group[CHOOSE j \in found : \A k \in found : k <= j])

PreviousRow(df, group, idx) ==
    IF idx > 1 THEN Some(group[idx - 1]) ELSE None

\* lines 298-313: the results of one entity's rows
GroupRows(df, group, entity, state_hours) ==
    [idx \in 1..Len(group) |->
        calculate_wafer_production_single_row(
            group[idx],
            PreviousRow(df, group, idx),
            LookupRunningHours(state_hours, entity, group[idx].counter_date))]

GroupResults(df, entity, state_hours) ==
    GroupRows(df, entity_group(df, entity), entity, state_hours)

\* lines 294-313: the groups in the order of their key
RECURSIVE AllResults(_, _, _)
AllResults(df, entities, state_hours) ==
    IF entities = <<>> THEN <<>>
    ELSE GroupResults(df, Head(entities), state_hours)
         \o AllResults(df, Tail(entities), state_hours)

GroupEntities(df) == Distinct([i \in 1..Len(df) |-> df[i].ENTITY])

ResultKey(res) == <<res.ENTITY, res.counter_date>>

\* lines 319-323: the results as a frame, the last kept of those with one
\* (ENTITY, counter_date)
DedupResults(res) ==
    drop_duplicates_last(res, [i \in 1..Len(res) |-> ResultKey(res[i])])

\* lines 291-323, for the frame sorted at line 289
ResultsOfSorted(sorted, state_hours) ==
    DedupResults(AllResults(sorted, GroupEntities(sorted), state_hours))

\* calculate_for_dataframe as a function of its arguments
calculate_for_dataframe(df, state_hours) ==
    ResultsOfSorted(SortCounters(df), state_hours)

----------------------------------------------------------------------------
(* Bronze ingestion: load_single_file and load_all_files of                *)
(* CountersIngestion and EntityStatesIngestion.  A file is what            *)
(* load_csv_safe returns for it: its columns and its rows; a row holds a   *)
(* value for each column of its file.  The metadata columns (source_file,  *)
(* load_ww, load_ts, load_date, file_modified_ts) are left out.            *)

\* config['entity_normalization'], the defaults of normalize_entity_name
entity_normalization ==
    [replace_pc_with_pm |-> TRUE,
     pattern |-> <<"_", "P", "C">>, replacement |-> <<"_", "P", "M">>]

\* counters_config.get('date_adjustment_days', -1)
date_adjustment_days == 0 - 1

\* str.replace(pattern, replacement)
RECURSIVE Replace(_, _, _)
Replace(str, pattern, replacement) ==
    IF Len(str) < Len(pattern) THEN str
    ELSE IF SubSeq(str, 1, Len(pattern)) = pattern
    THEN replacement
         \o Replace(SubSeq(str, Len(pattern) + 1, Len(str)), pattern, replacement)
    ELSE <<Head(str)>> \o Replace(Tail(str), pattern, replacement)

normalize_entity_name(entity, pattern, replacement) ==
    Replace(entity, pattern, replacement)

\* apply_entity_normalization on the ENTITY value of a row
apply_entity_normalization(entity) ==
    IF entity_normalization.replace_pc_with_pm
    THEN normalize_entity_name(entity, entity_normalization.pattern,
                               entity_normalization.replacement)
    ELSE entity

\* create_fab_entity_key
create_fab_entity_key(fab, entity) == fab \o <<"_">> \o entity

\* the day before a date
PreviousDay(date) ==
    LET y == date \div 10000
        m == (date \div 100) % 100
        d == date % 100
    IN  IF d > 1 THEN date - 1
        ELSE IF m > 1 THEN y * 10000 + (m - 1) * 100 + DaysInMonth(y, m - 1)
        ELSE (y - 1) * 10000 + 1231

\* adjust_timestamp(dt, days), for days <= 0, as a date
RECURSIVE adjust_timestamp(_, _)
adjust_timestamp(dt, days) ==
    IF days = 0 THEN dt ELSE adjust_timestamp(PreviousDay(dt), days + 1)

\* the outcome of a call: a value returned or an exception raised
Returned(df) == [raised |-> FALSE, df |-> df]

Raised(exception) == [raised |-> TRUE, exception |-> exception]

\* CountersIngestion.load_single_file
counters_load_single_file(file) ==
    IF "ENTITY" \notin file.columns
    THEN Raised("ValueError")
    ELSE Returned(
             [i \in 1..Len(file.rows) |->
                 LET entity == apply_entity_normalization(file.rows[i].ENTITY)
                     fab == IF "FAB" \notin file.columns
                            THEN Split(entity, "_")[1]
                            ELSE file.rows[i].FAB
                 IN  [ENTITY |-> entity, FAB |-> fab,
                      FAB_ENTITY |-> create_fab_entity_key(fab, entity),
                      counter_date |->
                          adjust_timestamp(file.modified, date_adjustment_days),
                      XCounter |-> file.rows[i].XCounter]])

\* EntityStatesIngestion.load_single_file
entity_states_load_single_file(file) ==
    IF {"FAB", "ENTITY", "ENTITY_STATE", "HOURS_IN_STATE"} \ file.columns # {}
    THEN Raised("ValueError")
    ELSE Returned(
             [i \in 1..Len(file.rows) |->
                 LET entity == apply_entity_normalization(file.rows[i].ENTITY)
                 IN  [ENTITY |-> entity, FAB |-> file.rows[i].FAB,
                      FAB_ENTITY |->
                          create_fab_entity_key(file.rows[i].FAB, entity),
                      ENTITY_STATE |-> file.rows[i].ENTITY_STATE,
                      HOURS_IN_STATE |-> file.rows[i].HOURS_IN_STATE,
                      DAY_SHIFT |-> file.rows[i].DAY_SHIFT]])

load_single_file(kind, file) ==
    IF kind = "counters" THEN counters_load_single_file(file)
    ELSE entity_states_load_single_file(file)

\* pd.concat(all_dfs, ignore_index=True)
RECURSIVE concat(_)
concat(dfs) == IF dfs = <<>> THEN <<>> ELSE Head(dfs) \o concat(Tail(dfs))

\* the subset of the ingestion's drop_duplicates
IngestKey(kind, row) ==
    IF kind = "counters" THEN <<row.FAB_ENTITY, row.counter_date>>
    ELSE <<row.FAB_ENTITY, row.DAY_SHIFT, row.ENTITY_STATE>>

\* load_all_files after the loop: the frame returned
combine(kind, dfs) ==
    IF dfs = <<>> THEN <<>>
    ELSE LET combined == concat(dfs)
         IN  drop_duplicates_last(
                 combined,
                 [i \in 1..Len(combined) |-> IngestKey(kind, combined[i])])

----------------------------------------------------------------------------
(* Bounds and input sets *)

MaxFields == 3

MaxRows == 2

MaxRecords == 2

SeqsUpTo(S, n) == UNION {[1..k -> S] : k \in 1..n}

Entities == {"E1", "E2"}

Fabs == {"F1", "F2"}

Dates == {20260105, 20260106}

\* Counter Discovery inputs: rows of up to MaxFields distinct fields
FieldNames == {XApcCounter, XApcCounter2, EscApcCounter, EscCounter}

FindValues == {None, Some(0 - 1), Some(0), Some(50)}

FindIndexes ==
    {ix \in SeqsUpTo(FieldNames, MaxFields) :
        \A i, j \in 1..Len(ix) : i # j => ix[i] # ix[j]}

FindRows ==
    UNION {{[ENTITY |-> "E1", counter_date |-> 20260105,
             index |-> ix, vals |-> vs] :
               vs \in [1..Len(ix) -> FindValues]} : ix \in FindIndexes}

KeywordLists == {<<>>, <<Apc>>, <<Esc>>, <<Apc, Esc>>, <<Esc, Apc>>}

\* single-row inputs: one entity, the current day and the day before
RowColumns == <<FocusCounter, ESCCounter, APCCounter>>

FocusValues == {None, Some(0), Some(5), Some(1005), Some(1006)}

ESCValues == {None, Some(0), Some(5), Some(7), Some(1006)}

APCValues == {None, Some(0), Some(5), Some(7), Some(1006)}

RowsOn(date) ==
    {[ENTITY |-> "E1", counter_date |-> date,
      index |-> RowColumns, vals |-> <<f, e, a>>] :
        f \in FocusValues, e \in ESCValues, a \in APCValues}

\* previous rows that lack a column of the current row: the primary
\* counter, or the counter of the first fallback keyword
PartialIndexes == {<<ESCCounter, APCCounter>>, <<FocusCounter, ESCCounter>>}

ValuesOf(col) ==
    IF col = FocusCounter THEN FocusValues
    ELSE IF col = ESCCounter THEN ESCValues
    ELSE APCValues

PartialRowsOn(date) ==
    UNION {{[ENTITY |-> "E1", counter_date |-> date,
             index |-> ix, vals |-> <<v1, v2>>] :
               v1 \in ValuesOf(ix[1]), v2 \in ValuesOf(ix[2])} :
           ix \in PartialIndexes}

HoursValues == {0, 4}

\* batch inputs: counter rows of one DataFrame (the same columns in every
\* row; the fallback counter is null on E2's rows) and a batch of raw state
\* records
BatchColumns == <<FocusCounter, ESCCounter>>

BatchRows ==
    {r \in {[ENTITY |-> en, counter_date |-> d,
             index |-> BatchColumns, vals |-> <<f, e>>] :
               en \in Entities, d \in Dates,
               f \in {None, Some(5), Some(1006)},
               e \in {None, Some(0), Some(5)}} :
        r.ENTITY = "E2" => r.vals[2] = None}

UP == <<"U", "P">>

IDLE == <<"I", "D", "L", "E">>

BAG == <<"B", "A", "G">>

Shift_Jan5 == <<"1", "/", "5", "-", "D">>

Shift_Jan6 == <<"1", "/", "6", "/", "2", "6", "-", "N">>

Shift_Feb30 == <<"2", "/", "3", "0", "-", "D">>

StateRecord(fab, en, st, hours, shift) ==
    [FAB |-> fab, ENTITY |-> en, FAB_ENTITY |-> <<fab, "_", en>>,
     ENTITY_STATE |-> st, HOURS_IN_STATE |-> hours, DAY_SHIFT |-> shift]

\* a running day and an idle day of E1 on Jan 6, a running day of E2 on Jan 5
BatchStateRecords ==
    {StateRecord("F1", "E1", Some(UP), 4, Some(Shift_Jan6)),
     StateRecord("F1", "E1", Some(IDLE), 4, Some(Shift_Jan6)),
     StateRecord("F1", "E2", Some(UP), 4, Some(Shift_Jan5))}

\* E1 is an entity of both fabs, E2 of F1 only
FabEntities == {<<"F1", "E1">>, <<"F2", "E1">>, <<"F1", "E2">>}

\* records of every entity, raw state and parseable day-shift, and records
\* for February 30
StateRecords ==
    {StateRecord(fe[1], fe[2], st, 2, Some(sh)) :
        fe \in FabEntities,
        st \in {None, Some(UP), Some(IDLE), Some(BAG)},
        sh \in {Shift_Jan5, Shift_Jan6}}
    \cup {StateRecord("F1", "E1", Some(UP), 2, Some(Shift_Feb30)),
          StateRecord("F2", "E1", Some(BAG), 2, Some(Shift_Feb30))}

\* classify_state inputs: raw states with and without surrounding blanks,
\* and configurations whose bagged name may also be a running or idle name
RawStates ==
    {None, Some(UP), Some(<<" ">> \o UP), Some(UP \o <<" ">>),
     Some(<<"U", " ", "P">>), Some(IDLE), Some(<<" ">> \o IDLE),
     Some(BAG), Some(<<" ">> \o BAG \o <<" ">>), Some(<<"X">>), Some(<<" ">>)}

StateConfigs ==
    {[running_states |-> r, idle_states |-> i, bagged_state |-> b] :
        r \in {{UP}, {UP, BAG}}, i \in {{IDLE}, {IDLE, BAG}, {IDLE, UP}},
        b \in {BAG, UP}}

\* ingestion inputs: files of one row, with and without a required column
MaxFiles == 2

EntityNames == {<<"A", "_", "P", "C", "1">>, <<"A", "_", "P", "M", "1">>}

\* the value a row of the modelled files holds in a column
FileValue(column, entity) ==
    CASE column = "ENTITY" -> entity
      [] column = "FAB" -> <<"F">>
      [] column = "XCounter" -> 5
      [] column = "ENTITY_STATE" -> UP
      [] column = "HOURS_IN_STATE" -> 2
      [] column = "DAY_SHIFT" -> Shift_Jan5

CountersFiles ==
    {[columns |-> cols, modified |-> d,
      rows |-> <<[c \in cols |-> FileValue(c, en)]>>] :
        cols \in {{"ENTITY", "FAB", "XCounter"}, {"ENTITY", "XCounter"},
                  {"FAB", "XCounter"}},
        d \in {20260106, 20260301}, en \in EntityNames}

EntityStatesFiles ==
    {[columns |-> cols, rows |-> <<[c \in cols |-> FileValue(c, en)]>>] :
        cols \in {{"FAB", "ENTITY", "ENTITY_STATE", "HOURS_IN_STATE", "DAY_SHIFT"},
                  {"FAB", "ENTITY", "HOURS_IN_STATE", "DAY_SHIFT"},
                  {"ENTITY", "ENTITY_STATE", "HOURS_IN_STATE", "DAY_SHIFT"}},
        en \in EntityNames}

\* no classify_state call and no ingestion under way
NoClassify ==
    /\ state_config = ConfiguredStates
    /\ entity_state_arg = None
    /\ state_category = None

NoIngest ==
    /\ ingestion = "none"
    /\ files_to_process = <<>>
    /\ file_idx = 0
    /\ all_dfs = <<>>
    /\ combined_df = None

----------------------------------------------------------------------------
(* Counter Discovery called on a row *)

InitFind ==
    /\ pc = "find"
    /\ row_arg \in FindRows
    /\ keywords_arg \in KeywordLists
    /\ counter_found = None
    /\ current_row = None /\ previous_row = None /\ running_hours_arg = 0
    /\ result = None
    /\ entity_states_df = <<>> /\ state_hours_df = <<>> /\ counters_df = <<>>
    /\ sorted_df = <<>> /\ results = <<>> /\ production_df = <<>>
    /\ rerun_df = None
    /\ NoClassify
    /\ NoIngest

CallFind ==
    /\ pc = "find"
    /\ counter_found' = find_counter_column(row_arg, keywords_arg)
    /\ pc' = "found"
    /\ UNCHANGED <<keywords_arg, row_arg, current_row, previous_row,
                   running_hours_arg, result, entity_states_df, state_hours_df,
                   counters_df, sorted_df, results, production_df,
                   rerun_df, classifyVars, ingestVars>>

NextFind == CallFind

SpecFind == InitFind /\ [][NextFind]_vars

----------------------------------------------------------------------------
(* The single-row calculation called on a current and a previous row *)

InitRow ==
    /\ pc = "row"
    /\ current_row \in {Some(r) : r \in RowsOn(20260106)}
    /\ previous_row \in {None} \cup {Some(r) : r \in RowsOn(20260105)}
                            \cup {Some(r) : r \in PartialRowsOn(20260105)}
    /\ running_hours_arg \in HoursValues
    /\ result = None
    /\ row_arg = None /\ keywords_arg = <<>> /\ counter_found = None
    /\ entity_states_df = <<>> /\ state_hours_df = <<>> /\ counters_df = <<>>
    /\ sorted_df = <<>> /\ results = <<>> /\ production_df = <<>>
    /\ rerun_df = None
    /\ NoClassify
    /\ NoIngest

CallSingleRow ==
    /\ pc = "row"
    /\ result' = Some(calculate_wafer_production_single_row(
                          Val(current_row), previous_row, running_hours_arg))
    /\ pc' = "row_done"
    /\ UNCHANGED <<keywords_arg, row_arg, counter_found, current_row,
                   previous_row, running_hours_arg, entity_states_df,
                   state_hours_df, counters_df, sorted_df, results,
                   production_df,
                   rerun_df, classifyVars, ingestVars>>

NextRow == CallSingleRow

SpecRow == InitRow /\ [][NextRow]_vars

----------------------------------------------------------------------------
(* The State Classifier run on a batch of raw state records *)

InitStates ==
    /\ pc = "states"
    /\ entity_states_df \in SeqsUpTo(StateRecords, MaxRecords)
    /\ state_hours_df = <<>>
    /\ row_arg = None /\ keywords_arg = <<>> /\ counter_found = None
    /\ current_row = None /\ previous_row = None /\ running_hours_arg = 0
    /\ result = None
    /\ counters_df = <<>> /\ sorted_df = <<>> /\ results = <<>>
    /\ production_df = <<>>
    /\ rerun_df = None
    /\ NoClassify
    /\ NoIngest

\* StateHoursCalculator.calculate_daily_state_hours; the caller's DataFrame
\* is copied (line 156), not changed
CalculateStateHours ==
    /\ pc = "states"
    /\ state_hours_df' = calculate_daily_state_hours(entity_states_df)
    /\ entity_states_df' = CallerFrame(entity_states_df)
    /\ pc' = "production"
    /\ UNCHANGED <<keywords_arg, row_arg, counter_found, current_row,
                   previous_row, running_hours_arg, result,
                   counters_df, sorted_df, results, production_df,
                   rerun_df, classifyVars, ingestVars>>

\* the same frame aggregated a second time
Reaggregate ==
    /\ pc = "production"
    /\ rerun_df = None
    /\ rerun_df' = Some(calculate_daily_state_hours(entity_states_df))
    /\ entity_states_df' = CallerFrame(entity_states_df)
    /\ UNCHANGED <<pc, keywords_arg, row_arg, counter_found, current_row,
                   previous_row, running_hours_arg, result, state_hours_df,
                   counters_df, sorted_df, results, production_df,
                   classifyVars, ingestVars>>

NextStates == CalculateStateHours \/ Reaggregate

SpecStates == InitStates /\ [][NextStates]_vars

----------------------------------------------------------------------------
(* classify_state called on one raw state under a configuration *)

InitClassify ==
    /\ pc = "classify"
    /\ state_config \in StateConfigs
    /\ entity_state_arg \in RawStates
    /\ state_category = None
    /\ row_arg = None /\ keywords_arg = <<>> /\ counter_found = None
    /\ current_row = None /\ previous_row = None /\ running_hours_arg = 0
    /\ result = None
    /\ entity_states_df = <<>> /\ state_hours_df = <<>> /\ counters_df = <<>>
    /\ sorted_df = <<>> /\ results = <<>> /\ production_df = <<>>
    /\ rerun_df = None
    /\ NoIngest

CallClassify ==
    /\ pc = "classify"
    /\ state_category' = Some(classify(state_config, entity_state_arg))
    /\ pc' = "classified"
    /\ UNCHANGED <<keywords_arg, row_arg, counter_found, current_row,
                   previous_row, running_hours_arg, result, entity_states_df,
                   state_hours_df, counters_df, sorted_df, results,
                   production_df, rerun_df, state_config, entity_state_arg,
                   ingestVars>>

NextClassify == CallClassify

SpecClassify == InitClassify /\ [][NextClassify]_vars

----------------------------------------------------------------------------
(* An ingestion's load_all_files on the files discovered: file_idx is the  *)
(* position of the loop of lines 192-198                                   *)

InitIngest ==
    /\ pc = "load_all_files"
    /\ ingestion \in {"counters", "entity_states"}
    /\ files_to_process \in
           {<<>>} \cup SeqsUpTo(IF ingestion = "counters" THEN CountersFiles
                                ELSE EntityStatesFiles, MaxFiles)
    /\ file_idx = 1
    /\ all_dfs = <<>>
    /\ combined_df = None
    /\ row_arg = None /\ keywords_arg = <<>> /\ counter_found = None
    /\ current_row = None /\ previous_row = None /\ running_hours_arg = 0
    /\ result = None
    /\ entity_states_df = <<>> /\ state_hours_df = <<>> /\ counters_df = <<>>
    /\ sorted_df = <<>> /\ results = <<>> /\ production_df = <<>>
    /\ rerun_df = None
    /\ NoClassify

\* one turn of the loop: the file is loaded and appended, or the exception
\* of load_single_file is caught, logged, and the loop continues
LoadFile ==
    /\ pc = "load_all_files"
    /\ file_idx <= Len(files_to_process)
    /\ all_dfs' =
           (IF load_single_file(ingestion, files_to_process[file_idx]).raised
            THEN all_dfs
            ELSE Append(all_dfs,
                        load_single_file(ingestion,
                                         files_to_process[file_idx]).df))
    /\ file_idx' = file_idx + 1
    /\ UNCHANGED <<pc, keywords_arg, row_arg, counter_found, current_row,
                   previous_row, running_hours_arg, result, entity_states_df,
                   state_hours_df, counters_df, sorted_df, results,
                   production_df, rerun_df, classifyVars,
                   ingestion, files_to_process, combined_df>>

\* after the loop (or with no file discovered): the frame is returned
ReturnCombined ==
    /\ pc = "load_all_files"
    /\ file_idx > Len(files_to_process)
    /\ combined_df' = Some(combine(ingestion, all_dfs))
    /\ pc' = "ingested"
    /\ UNCHANGED <<keywords_arg, row_arg, counter_found, current_row,
                   previous_row, running_hours_arg, result, entity_states_df,
                   state_hours_df, counters_df, sorted_df, results,
                   production_df, rerun_df, classifyVars,
                   ingestion, files_to_process, file_idx, all_dfs>>

NextIngest == LoadFile \/ ReturnCombined

SpecIngest == InitIngest /\ [][NextIngest]_vars

----------------------------------------------------------------------------
(* Silver enrichment (SilverEnrichment.enrich): the State Classifier, then *)
(* the Production Differencer on the counter history                       *)

Init ==
    /\ pc = "states"
    /\ entity_states_df \in [1..1 -> BatchStateRecords]
    /\ counters_df \in SeqsUpTo(BatchRows, MaxRows)
    /\ state_hours_df = <<>>
    /\ row_arg = None /\ keywords_arg = <<>> /\ counter_found = None
    /\ current_row = None /\ previous_row = None /\ running_hours_arg = 0
    /\ result = None
    /\ sorted_df = <<>> /\ results = <<>> /\ production_df = <<>>
    /\ rerun_df = None
    /\ NoClassify
    /\ NoIngest

\* WaferProductionCalculator.calculate_for_dataframe: sorted_df is the local
\* counters_df after line 289, results the list of line 291
CalculateForDataframe ==
    /\ pc = "production"
    /\ counters_df # <<>>
    /\ sorted_df' = SortCounters(counters_df)
    /\ results' = AllResults(sorted_df', GroupEntities(sorted_df'),
                             state_hours_df)
    /\ production_df' = DedupResults(results')
    /\ pc' = "done"
    /\ UNCHANGED <<keywords_arg, row_arg, counter_found, current_row,
                   previous_row, running_hours_arg, result, entity_states_df,
                   state_hours_df, counters_df,
                   rerun_df, classifyVars, ingestVars>>

Next == CalculateStateHours \/ CalculateForDataframe

Spec == Init /\ [][Next]_vars

----------------------------------------------------------------------------
(* Counter Discovery stated as a choice rather than as a search: among the *)
(* pairs (keyword position, field position) whose field is usable for the  *)
(* keyword, the least keyword position, and for it the least field         *)
(* position.                                                               *)

RefCandidates(row, keywords) ==
    {c \in (1..Len(keywords)) \X (1..Len(row.index)) :
        /\ Contains(keywords[c[1]], row.index[c[2]])
        /\ EndsWith(row.index[c[2]], Counter)
        /\ row.vals[c[2]] # None
        /\ row.vals[c[2]][1] > 0}

RefFind(row, keywords) ==
    LET cands == RefCandidates(row, keywords)
    IN  IF cands = {} THEN None
        ELSE LET c == CHOOSE c \in cands :
                          \A o \in cands :
                              c[1] < o[1] \/ (c[1] = o[1] /\ c[2] <= o[2])
             IN  Some([col |-> row.index[c[2]], value |-> row.vals[c[2]][1],
                       keyword |-> keywords[c[1]]])

AllKeywords == primary_keywords \o fallback_keywords

IsPrimary(keyword) ==
    \E i \in 1..Len(primary_keywords) : primary_keywords[i] = keyword

\* a change is computed on the column that Discovery returns for cur:
\* there is a previous row and it holds a non-null value for that column
ChangeComputed(cur, prev_opt) ==
    /\ RefFind(cur, AllKeywords) # None
    /\ prev_opt # None
    /\ InIndex(prev_opt[1], RefFind(cur, AllKeywords)[1].col)
    /\ Get(prev_opt[1], RefFind(cur, AllKeywords)[1].col) # None

InitialChange(cur, prev_opt) ==
    RefFind(cur, AllKeywords)[1].value
    - Get(prev_opt[1], RefFind(cur, AllKeywords)[1].col)[1]

RowDone == pc = "row_done"

\* C1: find(row, keywords) equals the reference: the first keyword, in list
\* order, that has a field containing it, ending in "Counter" and holding a
\* value > 0, with the first such field in field order; not_found only when
\* no keyword has one.  A null or zero field is never returned.
C1_FindEqualsReference ==
    pc = "found" =>
        /\ counter_found = RefFind(row_arg, keywords_arg)
        /\ counter_found # None =>
               /\ Get(row_arg, counter_found[1].col) = Some(counter_found[1].value)
               /\ counter_found[1].value > 0

\* C1 witness: the first field matching the winning keyword holds 0 and is
\* skipped, and a field usable for a later keyword stands before the
\* returned field
C1_Witness ==
    /\ pc = "found"
    /\ counter_found # None
    /\ \E k \in 1..Len(keywords_arg), j, z \in 1..Len(row_arg.index) :
          /\ keywords_arg[k] # counter_found[1].keyword
          /\ j < Pos(row_arg.index, counter_found[1].col)
          /\ <<k, j>> \in RefCandidates(row_arg, keywords_arg)
          /\ z < Pos(row_arg.index, counter_found[1].col)
          /\ Matches(counter_found[1].keyword, row_arg.index[z])
          /\ row_arg.vals[z] = Some(0)

\* C2: a non-first row whose discovered column has a non-null previous
\* value not above the current one has counter_change = current - previous,
\* wafers_produced = counter_change, no replacement flag, and with
\* running_hours > 0 wafers_per_hour = wafers_produced / running_hours.
C2_NormalDelta ==
    (RowDone /\ ChangeComputed(current_row[1], previous_row)
       /\ InitialChange(current_row[1], previous_row) >= 0) =>
        LET change == InitialChange(current_row[1], previous_row)
            res == result[1]
        IN  /\ res.counter_change = Some(change)
            /\ res.wafers_produced = Some(change)
            /\ res.part_replacement_detected = FALSE
            /\ running_hours_arg > 0 =>
                   /\ res.wafers_per_hour # None
                   /\ res.wafers_per_hour[1][2] > 0
                   /\ res.wafers_per_hour[1][1] * running_hours_arg
                          = change * res.wafers_per_hour[1][2]

\* C2 witness: 5 -> 1005 with 4 running hours gives change 1000, rate 250
C2_Witness ==
    /\ RowDone
    /\ running_hours_arg = 4
    /\ result[1].counter_previous_value = Some(5)
    /\ result[1].counter_current_value = Some(1005)
    /\ result[1].wafers_produced = Some(1000)
    /\ result[1].wafers_per_hour = Some(<<250, 1>>)

\* C3: part_replacement_detected is set exactly when a change was computed
\* on the initially discovered column and is strictly below the threshold;
\* a change with threshold <= change < 0 keeps its negative value, is not
\* flagged, and leaves wafers_produced and wafers_per_hour null.
C3_ReplacementExactlyBelowThreshold ==
    RowDone =>
        LET cur == current_row[1]
            res == result[1]
            computed == ChangeComputed(cur, previous_row)
        IN  /\ res.part_replacement_detected
                <=> (computed
                     /\ InitialChange(cur, previous_row) < replacement_threshold)
            /\ (computed
                /\ InitialChange(cur, previous_row) >= replacement_threshold
                /\ InitialChange(cur, previous_row) < 0) =>
                   /\ res.part_replacement_detected = FALSE
                   /\ res.counter_change = Some(InitialChange(cur, previous_row))
                   /\ res.wafers_produced = None
                   /\ res.wafers_per_hour = None

\* C3 witness: a drop equal to the threshold is kept as it is
C3_Witness ==
    /\ RowDone
    /\ result[1].counter_change = Some(replacement_threshold)
    /\ result[1].part_replacement_detected = FALSE
    /\ result[1].wafers_produced = None

\* C4: a change below the threshold with no usable fallback counter on the
\* current row gives part_replacement_detected, counter_change 0,
\* wafers_produced 0, and wafers_per_hour 0 when running_hours > 0.
C4_ClampWithoutFallback ==
    (RowDone /\ ChangeComputed(current_row[1], previous_row)
       /\ InitialChange(current_row[1], previous_row) < replacement_threshold
       /\ RefFind(current_row[1], fallback_keywords) = None) =>
        /\ result[1].part_replacement_detected = TRUE
        /\ result[1].counter_change = Some(0)
        /\ result[1].wafers_produced = Some(0)
        /\ running_hours_arg > 0 => result[1].wafers_per_hour = Some(<<0, 1>>)

\* C4 witness: 1006 -> 5 on the primary counter, no usable fallback, with
\* running hours
C4_Witness ==
    /\ RowDone
    /\ running_hours_arg > 0
    /\ RefFind(current_row[1], fallback_keywords) = None
    /\ result[1].part_replacement_detected = TRUE
    /\ result[1].counter_previous_value = Some(1006)
    /\ result[1].counter_change = Some(0)
    /\ result[1].wafers_per_hour = Some(<<0, 1>>)

\* the columns of cur that match a fallback keyword and whose delta from
\* the previous row is non-negative
NonNegativeFallbacks(cur, prev) ==
    {j \in 1..Len(cur.index) :
        /\ \E k \in 1..Len(fallback_keywords) :
               Matches(fallback_keywords[k], cur.index[j])
        /\ cur.vals[j] # None
        /\ InIndex(prev, cur.index[j])
        /\ Get(prev, cur.index[j]) # None
        /\ cur.vals[j][1] - Get(prev, cur.index[j])[1] >= 0}

PrimaryDrop(cur, prev_opt) ==
    /\ ChangeComputed(cur, prev_opt)
    /\ IsPrimary(RefFind(cur, AllKeywords)[1].keyword)
    /\ InitialChange(cur, prev_opt) < replacement_threshold

C9_WafersNonNegative ==
    RowDone =>
        LET res == result[1]
        IN  /\ res.wafers_produced # None => res.wafers_produced[1] >= 0
            /\ res.wafers_produced # None
                <=> (res.counter_change # None /\ res.counter_change[1] >= 0)
            /\ res.wafers_produced # None =>
                   res.wafers_produced = res.counter_change

\* C9 witness: an ordinary negative change leaves wafers_produced null
C9_Witness ==
    /\ RowDone
    /\ result[1].counter_change # None
    /\ result[1].counter_change[1] < 0
    /\ result[1].wafers_produced = None

----------------------------------------------------------------------------
(* Claims about the batch.  results[i] is the result of sorted_df[i]. *)

BatchDone == pc = "done"

\* the rows that are the first processed for their entity
FirstOfEntity(i) == i = 1 \/ sorted_df[i - 1].ENTITY # sorted_df[i].ENTITY

\* C6: the first row processed for an entity yields counter_change,
\* wafers_produced, wafers_per_hour and counter_previous_value null and no
\* replacement flag; when a counter is discovered on it, the column, the
\* keyword and the current value are populated.
C6_FirstDayNoChange ==
    BatchDone =>
        /\ Len(results) = Len(sorted_df)
        /\ \A i \in 1..Len(results) :
              FirstOfEntity(i) =>
                  LET res == results[i]
                      found == RefFind(sorted_df[i], AllKeywords)
                  IN  /\ res.ENTITY = sorted_df[i].ENTITY
                      /\ res.counter_date = sorted_df[i].counter_date
                      /\ res.counter_change = None
                      /\ res.wafers_produced = None
                      /\ res.wafers_per_hour = None
                      /\ res.counter_previous_value = None
                      /\ res.part_replacement_detected = FALSE
                      /\ found # None =>
                             /\ res.counter_column_used = Some(found[1].col)
                             /\ res.counter_keyword_used = Some(found[1].keyword)
                             /\ res.counter_current_value = Some(found[1].value)

\* C6 witness: a second entity's first row, with a counter discovered and
\* running hours, directly after another entity's row that holds a value
\* for the same column
C6_Witness ==
    /\ BatchDone
    /\ Len(results) = 2
    /\ sorted_df[1].ENTITY # sorted_df[2].ENTITY
    /\ results[2].counter_current_value = Some(1006)
    /\ results[2].running_hours > 0
    /\ Get(sorted_df[1], results[2].counter_column_used[1]) = Some(5)
    /\ results[2].counter_change = None

MatchingAggregates(res) ==
    {i \in 1..Len(state_hours_df) :
        /\ state_hours_df[i].ENTITY = res.ENTITY
        /\ state_hours_df[i].state_date = res.counter_date}

\* C7: running_hours of a result is the running_hours of the aggregate with
\* the result's (entity, date), or 0 when there is none; with
\* running_hours = 0 wafers_per_hour is null, whatever the change was.
C7_RunningHoursLookup ==
    BatchDone =>
        \A i \in 1..Len(results) :
            LET res == results[i]
            IN  /\ \A a \in MatchingAggregates(res) :
                       res.running_hours = state_hours_df[a].running_hours
                /\ MatchingAggregates(res) = {} => res.running_hours = 0
                /\ res.running_hours = 0 => res.wafers_per_hour = None
                /\ res.wafers_per_hour # None => res.wafers_per_hour[1][2] > 0

\* C7 witness: a replacement row (clamped or recovered) of an entity that
\* has an aggregate on another date only: running_hours 0, production
\* known, rate null
C7_Witness ==
    /\ BatchDone
    /\ \E i \in 1..Len(results) :
          /\ results[i].part_replacement_detected
          /\ results[i].wafers_produced # None
          /\ results[i].running_hours = 0
          /\ results[i].wafers_per_hour = None
          /\ MatchingAggregates(results[i]) = {}
          /\ \E a \in 1..Len(state_hours_df) :
                 /\ state_hours_df[a].ENTITY = results[i].ENTITY
                 /\ state_hours_df[a].running_hours > 0

InputKeys == {<<counters_df[i].ENTITY, counters_df[i].counter_date>> :
                 i \in 1..Len(counters_df)}

LastInputRow(key) ==
    counters_df[CHOOSE i \in 1..Len(counters_df) :
                    /\ <<counters_df[i].ENTITY, counters_df[i].counter_date>> = key
                    /\ \A j \in (i + 1)..Len(counters_df) :
                           <<counters_df[j].ENTITY, counters_df[j].counter_date>>
                               # key]

----------------------------------------------------------------------------
(* Claims about the State Classifier *)

StatesDone == pc = "production"

\* C10: every StateDayAggregate row has total_hours = running_hours +
\* idle_hours + down_hours + bagged_hours and is_bagged = (bagged_hours > 0).
C10_TotalAndBagged ==
    StatesDone =>
        \A i \in 1..Len(state_hours_df) :
            LET a == state_hours_df[i]
            IN  /\ a.total_hours = a.running_hours + a.idle_hours
                                     + a.down_hours + a.bagged_hours
                /\ a.is_bagged = (a.bagged_hours > 0)

\* C10 witness: a day with bagged and running hours, and a day without
\* bagged hours
C10_Witness ==
    /\ StatesDone
    /\ \E i \in 1..Len(state_hours_df) :
          /\ state_hours_df[i].bagged_hours > 0
          /\ state_hours_df[i].running_hours > 0
          /\ state_hours_df[i].is_bagged = TRUE
          /\ state_hours_df[i].total_hours
                 = state_hours_df[i].bagged_hours + state_hours_df[i].running_hours

----------------------------------------------------------------------------
(* Claims about classify_state *)

Classified == pc = "classified"

\* the precedence of the four categories, applied to a state name
Precedence(config, name) ==
    IF name = config.bagged_state THEN "Bagged"
    ELSE IF name \in config.running_states THEN "Running"
    ELSE IF name \in config.idle_states THEN "Idle"
    ELSE "Down"

\* a string without its leading and trailing whitespace, stated as the
\* stretch from its first to its last non-whitespace character
Trimmed(str) ==
    LET solid == {i \in 1..Len(str) : str[i] \notin Whitespace}
    IN  IF solid = {} THEN <<>>
        ELSE SubSeq(str, CHOOSE i \in solid : \A j \in solid : i <= j,
                         CHOOSE i \in solid : \A j \in solid : i >= j)

\* C13 as claimed: classify gives Down for a null raw_state and otherwise
\* applies the precedence Bagged, Running, Idle, Down to raw_state itself.
C13_ClassifyRawState ==
    Classified =>
        state_category =
            Some(IF entity_state_arg = None THEN "Down"
                 ELSE Precedence(state_config, entity_state_arg[1]))

\* C13 amended: classify is total over the four categories; a null
\* raw_state gives Down, and otherwise the precedence Bagged (even when the
\* bagged name is also a running or idle name), Running, Idle, Down is
\* applied to raw_state with its surrounding whitespace removed.
C13_ClassifyTrimmedState ==
    Classified =>
        /\ state_category # None
        /\ state_category[1] \in {"Running", "Idle", "Down", "Bagged"}
        /\ state_category =
               Some(IF entity_state_arg = None THEN "Down"
                    ELSE Precedence(state_config, Trimmed(entity_state_arg[1])))

\* C13 witness: the bagged name is also listed as a running state, and the
\* raw state is that name with blanks around it: Bagged
C13_Witness ==
    /\ Classified
    /\ state_config.bagged_state \in state_config.running_states
    /\ entity_state_arg = Some(<<" ">> \o state_config.bagged_state \o <<" ">>)
    /\ state_category = Some("Bagged")

----------------------------------------------------------------------------
(* Claims about the State Classifier's batch *)

\* C11: the State Classifier output holds at most one row per (entity,
\* state_date), also when the entity and date occur under several fabs.
C11_OneRowPerEntityDate ==
    StatesDone =>
        \A i, j \in 1..Len(state_hours_df) :
            (/\ state_hours_df[i].ENTITY = state_hours_df[j].ENTITY
             /\ state_hours_df[i].state_date = state_hours_df[j].state_date)
                => i = j

\* C11 witness: one entity on one date under two fabs, one output row
C11_Witness ==
    /\ StatesDone
    /\ Len(entity_states_df) = 2
    /\ entity_states_df[1].ENTITY = entity_states_df[2].ENTITY
    /\ entity_states_df[1].FAB # entity_states_df[2].FAB
    /\ entity_states_df[1].DAY_SHIFT = Some(Shift_Jan5)
    /\ entity_states_df[2].DAY_SHIFT = Some(Shift_Jan5)
    /\ Len(state_hours_df) = 1

RefCalendarDay(y, m, d) ==
    /\ m \in 1..12
    /\ d >= 1
    /\ d <= (CASE m \in {1, 3, 5, 7, 8, 10, 12} -> 31
               [] m \in {4, 6, 9, 11} -> 30
               [] m = 2 -> IF (y % 4 = 0 /\ y % 100 # 0) \/ y % 400 = 0
                           THEN 29 ELSE 28)

\* the day-shift values that encode a date: before the first "-" stands
\* "M/D", "M/D/YY" or "M/D/YYYY", naming a calendar day (for "M/D" a day
\* of 1900 and of the current year)
RefParseable(day_shift) ==
    /\ day_shift # None
    /\ LET parts == Split(Split(day_shift[1], "-")[1], "/")
       IN  /\ Len(parts) \in {2, 3}
           /\ \A i \in 1..Len(parts) : parts[i] # <<>> /\ AllDigits(parts[i])
           /\ Len(parts[1]) <= 2 /\ Len(parts[2]) <= 2
           /\ IF Len(parts) = 2
              THEN /\ RefCalendarDay(1900, Number(parts[1]), Number(parts[2]))
                   /\ RefCalendarDay(current_year, Number(parts[1]),
                                     Number(parts[2]))
              ELSE /\ Len(parts[3]) \in {2, 4}
                   /\ RefCalendarDay(
                          IF Len(parts[3]) = 4 THEN Number(parts[3])
                          ELSE IF Number(parts[3]) >= 69
                          THEN 1900 + Number(parts[3])
                          ELSE 2000 + Number(parts[3]),
                          Number(parts[1]), Number(parts[2]))
                   /\ Len(parts[3]) = 4 => Number(parts[3]) >= 1

ParseableRecords(df) == SelectSeq(df, LAMBDA r : RefParseable(r.DAY_SHIFT))

\* C14: a batch with records whose day-shift encodes no date is aggregated
\* to the rows of the same batch without those records (to no rows when
\* no record is left).
C14_UnparseableDropped ==
    StatesDone =>
        /\ state_hours_df
               = calculate_daily_state_hours(ParseableRecords(entity_states_df))
        /\ ParseableRecords(entity_states_df) = <<>> => state_hours_df = <<>>
        /\ \A i \in 1..Len(state_hours_df) :
               \E k \in 1..Len(entity_states_df) :
                   /\ RefParseable(entity_states_df[k].DAY_SHIFT)
                   /\ entity_states_df[k].ENTITY = state_hours_df[i].ENTITY

\* C14 witness: a record for February 30 beside a record for January 5 of
\* the same entity: one row, with the hours of the January record only
C14_Witness ==
    /\ StatesDone
    /\ Len(entity_states_df) = 2
    /\ entity_states_df[1].DAY_SHIFT = Some(Shift_Feb30)
    /\ entity_states_df[2].DAY_SHIFT = Some(Shift_Jan5)
    /\ entity_states_df[1].FAB_ENTITY = entity_states_df[2].FAB_ENTITY
    /\ Len(state_hours_df) = 1
    /\ state_hours_df[1].state_date = 20260105
    /\ state_hours_df[1].total_hours = 2

----------------------------------------------------------------------------
(* Claims about the ingestion *)

RequiredColumns(kind) ==
    IF kind = "counters" THEN {"ENTITY"}
    ELSE {"FAB", "ENTITY", "ENTITY_STATE", "HOURS_IN_STATE"}

LacksRequiredColumn(file) == RequiredColumns(ingestion) \ file.columns # {}

\* C15: when a file of the run lacks a required column, load_all_files
\* does not return a frame to its caller (the error propagates instead).
C15_MissingColumnPropagates ==
    (\E i \in 1..Len(files_to_process) :
         LacksRequiredColumn(files_to_process[i]))
        => ~(pc = "ingested" /\ combined_df # None)

----------------------------------------------------------------------------
(* Claims about fallback recovery *)

\* a replacement on a primary-keyword counter while Discovery over the
\* fallback keywords returns a column that the previous row holds non-null
FallbackPairAvailable(cur, prev_opt) ==
    /\ PrimaryDrop(cur, prev_opt)
    /\ RefFind(cur, fallback_keywords) # None
    /\ InIndex(prev_opt[1], RefFind(cur, fallback_keywords)[1].col)
    /\ Get(prev_opt[1], RefFind(cur, fallback_keywords)[1].col) # None

FallbackChange(cur, prev_opt) ==
    RefFind(cur, fallback_keywords)[1].value
    - Get(prev_opt[1], RefFind(cur, fallback_keywords)[1].col)[1]

UsesFallback(res, cur, prev_opt) ==
    LET fb == RefFind(cur, fallback_keywords)[1]
    IN  /\ res.counter_column_used = Some(fb.col)
        /\ res.counter_keyword_used = Some(fb.keyword)
        /\ res.counter_current_value = Some(fb.value)
        /\ res.counter_previous_value = Get(prev_opt[1], fb.col)

UsesInitial(res, cur, prev_opt) ==
    LET f == RefFind(cur, AllKeywords)[1]
    IN  /\ res.counter_column_used = Some(f.col)
        /\ res.counter_keyword_used = Some(f.keyword)
        /\ res.counter_current_value = Some(f.value)
        /\ res.counter_previous_value = Get(prev_opt[1], f.col)

\* C16 as claimed: with a fallback pair available the result's column,
\* keyword, current and previous value are the fallback's whatever the sign
\* of the recomputed change, and counter_change is that change, or 0 when
\* it is negative.
C16_SwitchWhateverTheSign ==
    (RowDone /\ FallbackPairAvailable(current_row[1], previous_row)) =>
        /\ UsesFallback(result[1], current_row[1], previous_row)
        /\ result[1].counter_change =
               Some(IF FallbackChange(current_row[1], previous_row) < 0 THEN 0
                    ELSE FallbackChange(current_row[1], previous_row))

\* C16 amended: with a fallback pair available, the result's column,
\* keyword, current and previous value are switched to the fallback's and
\* counter_change is the recomputed change only when that change is >= 0;
\* when it is negative the result keeps the primary counter's column,
\* keyword, current and previous value and counter_change is clamped to 0.
C16_SwitchOnlyWhenNonNegative ==
    (RowDone /\ FallbackPairAvailable(current_row[1], previous_row)) =>
        /\ result[1].part_replacement_detected = TRUE
        /\ IF FallbackChange(current_row[1], previous_row) >= 0
           THEN /\ UsesFallback(result[1], current_row[1], previous_row)
                /\ result[1].counter_change =
                       Some(FallbackChange(current_row[1], previous_row))
           ELSE /\ UsesInitial(result[1], current_row[1], previous_row)
                /\ result[1].counter_change = Some(0)

\* C16 witness: the primary counter drops 1006 -> 5 and the discovered
\* fallback counter goes 7 -> 5: the result stays on the primary counter
\* with counter_change 0
C16_Witness ==
    /\ RowDone
    /\ FallbackPairAvailable(current_row[1], previous_row)
    /\ FallbackChange(current_row[1], previous_row) = 0 - 2
    /\ result[1].counter_column_used = Some(FocusCounter)
    /\ result[1].counter_previous_value = Some(1006)
    /\ result[1].counter_change = Some(0)

\* C17: when the keyword that selected the initial counter is a fallback
\* keyword and the change is below the threshold, the result keeps that
\* column, keyword and value pair, is flagged as a replacement and has
\* counter_change 0: no other counter is used.
C17_NoRecoveryFromFallbackKeyword ==
    (RowDone /\ ChangeComputed(current_row[1], previous_row)
       /\ ~IsPrimary(RefFind(current_row[1], AllKeywords)[1].keyword)
       /\ InitialChange(current_row[1], previous_row) < replacement_threshold) =>
        /\ UsesInitial(result[1], current_row[1], previous_row)
        /\ result[1].part_replacement_detected = TRUE
        /\ result[1].counter_change = Some(0)
        /\ result[1].wafers_produced = Some(0)

\* C17 witness: the counter selected by the first fallback keyword drops
\* 1006 -> 5 while the counter of the next fallback keyword rises 5 -> 7:
\* the result stays on the first, clamped
C17_Witness ==
    /\ RowDone
    /\ previous_row # None
    /\ previous_row[1].index = RowColumns
    /\ Get(previous_row[1], APCCounter) = Some(1006)
    /\ Get(previous_row[1], ESCCounter) = Some(5)
    /\ Get(current_row[1], ESCCounter) = Some(7)
    /\ result[1].counter_column_used = Some(APCCounter)
    /\ result[1].counter_current_value = Some(5)
    /\ result[1].part_replacement_detected = TRUE
    /\ result[1].counter_change = Some(0)

----------------------------------------------------------------------------
(* Claims about the order of processing.  sorted_df[i - 1] is the row that *)
(* is the previous row of sorted_df[i] when both are of one entity.        *)

\* C18: for every result that is not the first of its entity, the previous
\* row is a row of the entity with a counter_date strictly earlier than
\* the current row's, the greatest such date among the entity's input rows,
\* and counter_previous_value, when set, is that row's value.
C18_PreviousIsLatestEarlierDate ==
    BatchDone =>
        \A i \in 1..Len(results) :
            ~FirstOfEntity(i) =>
                /\ sorted_df[i - 1].counter_date < sorted_df[i].counter_date
                /\ \A k \in 1..Len(counters_df) :
                       (/\ counters_df[k].ENTITY = sorted_df[i].ENTITY
                        /\ counters_df[k].counter_date
                               < sorted_df[i].counter_date)
                           => counters_df[k].counter_date
                                  <= sorted_df[i - 1].counter_date
                /\ results[i].counter_previous_value # None =>
                       results[i].counter_previous_value
                           = Get(sorted_df[i - 1],
                                 results[i].counter_column_used[1])

\* rows i - 1 and i are consecutive days of one entity, and a change is
\* computed for row i on the column Discovery returns for it
ConsecutiveWithChange(i) ==
    /\ i > 1
    /\ sorted_df[i - 1].ENTITY = sorted_df[i].ENTITY
    /\ sorted_df[i - 1].counter_date < sorted_df[i].counter_date
    /\ ChangeComputed(sorted_df[i], Some(sorted_df[i - 1]))
    /\ results[i].counter_column_used
           = Some(RefFind(sorted_df[i], AllKeywords)[1].col)

\* C19 as claimed: counter_previous_value of the later row is the value
\* that Counter Discovery returns for the earlier row.
C19_PreviousIsDiscoveredValue ==
    BatchDone =>
        \A i \in 1..Len(results) :
            ConsecutiveWithChange(i) =>
                /\ RefFind(sorted_df[i - 1], AllKeywords) # None
                /\ results[i].counter_previous_value
                       = Some(RefFind(sorted_df[i - 1], AllKeywords)[1].value)

\* C19 amended: counter_previous_value of the later row is the earlier
\* row's value in the column that Discovery returns for the later row; it
\* is the value Discovery returns for the earlier row when Discovery
\* returns that same column there.
C19_PreviousIsValueOfCurrentColumn ==
    BatchDone =>
        \A i \in 1..Len(results) :
            ConsecutiveWithChange(i) =>
                LET col == RefFind(sorted_df[i], AllKeywords)[1].col
                    before == RefFind(sorted_df[i - 1], AllKeywords)
                IN  /\ results[i].counter_previous_value
                           = Get(sorted_df[i - 1], col)
                    /\ (before # None /\ before[1].col = col) =>
                           results[i].counter_previous_value
                               = Some(before[1].value)

\* C19 witness: Discovery returns the primary counter (1006) on the first
\* day and the fallback counter on the second; the previous value is the
\* first day's fallback counter value (5)
C19_Witness ==
    /\ BatchDone
    /\ Len(results) = 2
    /\ ConsecutiveWithChange(2)
    /\ RefFind(sorted_df[1], AllKeywords) # None
    /\ RefFind(sorted_df[1], AllKeywords)[1].value = 1006
    /\ results[2].counter_column_used = Some(ESCCounter)
    /\ results[2].counter_previous_value = Some(5)

\* the rows of a frame that belong to an entity
OfEntity(df, entity) == SelectSeq(df, LAMBDA r : r.ENTITY = entity)

\* C20: the results of an entity are those of a run on that entity's
\* counter rows and state aggregates alone; so two runs whose inputs agree
\* on an entity's rows and aggregates give the same results for it.
C20_EntityResultsIndependent ==
    BatchDone =>
        \A e \in Entities :
            OfEntity(production_df, e)
                = (IF OfEntity(counters_df, e) = <<>> THEN <<>>
                   ELSE calculate_for_dataframe(OfEntity(counters_df, e),
                                                OfEntity(state_hours_df, e)))

\* C20 witness: two entities with a counter row on the same date, of which
\* only one has a state aggregate with running hours on that date
C20_Witness ==
    /\ BatchDone
    /\ Len(production_df) = 2
    /\ production_df[1].ENTITY # production_df[2].ENTITY
    /\ production_df[1].counter_date = production_df[2].counter_date
    /\ production_df[1].running_hours = 0
    /\ production_df[2].running_hours > 0

----------------------------------------------------------------------------
(* Claims about the rows on which no change is computed *)

NoCounterNote == <<"No counter found with any keyword">>

\* every field that a calculation would fill is null
NothingComputed(res) ==
    /\ res.counter_column_used = None
    /\ res.counter_keyword_used = None
    /\ res.counter_current_value = None
    /\ res.counter_previous_value = None
    /\ res.counter_change = None
    /\ res.wafers_produced = None
    /\ res.wafers_per_hour = None
    /\ res.part_replacement_detected = FALSE

\* C21: a row on which Discovery over primary ++ fallback keywords finds
\* nothing gives a result with column, keyword, current value, previous
\* value, change, wafers_produced and wafers_per_hour null, no replacement
\* flag and the "no counter found" note; the batch goes on, and the entity's
\* next row takes this row as its previous row.
C21_NoCounterFound ==
    BatchDone =>
        /\ Len(results) = Len(sorted_df)
        /\ \A i \in 1..Len(results) :
              RefFind(sorted_df[i], AllKeywords) = None =>
                  /\ results[i].ENTITY = sorted_df[i].ENTITY
                  /\ results[i].counter_date = sorted_df[i].counter_date
                  /\ NothingComputed(results[i])
                  /\ results[i].calculation_notes = NoCounterNote
                  /\ (/\ i < Len(results)
                      /\ sorted_df[i + 1].ENTITY = sorted_df[i].ENTITY
                      /\ RefFind(sorted_df[i + 1], AllKeywords) # None) =>
                         LET nxt == results[i + 1]
                             col == RefFind(sorted_df[i + 1], AllKeywords)[1].col
                         IN  /\ nxt.counter_previous_value
                                    = Get(sorted_df[i], col)
                             /\ Get(sorted_df[i], col) = None =>
                                    nxt.calculation_notes
                                        = <<"Previous value is null">>
                             /\ Get(sorted_df[i], col) # None =>
                                    nxt.counter_change # None

\* C21 witness: a day with the primary counter null and the fallback
\* counter 0 (nothing found), then a day of the same entity on which the
\* fallback counter is found: its change is taken against the 0
C21_Witness ==
    /\ BatchDone
    /\ Len(results) = 2
    /\ sorted_df[1].ENTITY = sorted_df[2].ENTITY
    /\ sorted_df[1].counter_date < sorted_df[2].counter_date
    /\ results[1].calculation_notes = NoCounterNote
    /\ NothingComputed(results[1])
    /\ results[2].counter_column_used = Some(ESCCounter)
    /\ results[2].counter_previous_value = Some(0)
    /\ results[2].counter_change = Some(5)

\* the column of a discovery (found) has no value in the previous row
PreviousValueMissing(found, prev_opt) ==
    /\ found # None
    /\ prev_opt # None
    /\ \/ ~InIndex(prev_opt[1], found[1].col)
       \/ Get(prev_opt[1], found[1].col) = None

\* C22: when the discovered column is absent from the previous row or null
\* there, counter_change, counter_previous_value, wafers_produced and
\* wafers_per_hour are null, there is no replacement flag, the column, the
\* keyword and the current value are those discovered (no other column is
\* tried) and the result carries one note.
C22_MissingPreviousValue ==
    \A found \in {RefFind(current_row[1], AllKeywords)} :
    (RowDone /\ PreviousValueMissing(found, previous_row)) =>
        LET res == result[1]
            f == found[1]
        IN  /\ res.counter_change = None
            /\ res.counter_previous_value = None
            /\ res.wafers_produced = None
            /\ res.wafers_per_hour = None
            /\ res.part_replacement_detected = FALSE
            /\ res.counter_column_used = Some(f.col)
            /\ res.counter_keyword_used = Some(f.keyword)
            /\ res.counter_current_value = Some(f.value)
            /\ res.calculation_notes
                   = (IF InIndex(previous_row[1], f.col)
                      THEN <<"Previous value is null">>
                      ELSE <<"Counter not in previous row">>)

\* C22 witness: the previous row has no primary counter column while the
\* fallback counter goes 5 -> 7 in both rows: the result stays on the
\* primary counter, without a change
C22_Witness ==
    /\ RowDone
    /\ previous_row # None
    /\ ~InIndex(previous_row[1], FocusCounter)
    /\ Get(previous_row[1], ESCCounter) = Some(5)
    /\ Get(current_row[1], ESCCounter) = Some(7)
    /\ result[1].counter_column_used = Some(FocusCounter)
    /\ result[1].counter_current_value # None
    /\ result[1].counter_change = None
    /\ result[1].calculation_notes = <<"Counter not in previous row">>

----------------------------------------------------------------------------
(* Claims about the hours of the State Classifier's rows *)

\* the category of a raw state under the batch configuration
RefCategory(raw_state) ==
    IF raw_state = None THEN "Down"
    ELSE Precedence(ConfiguredStates, Trimmed(raw_state[1]))

\* what the claims read of each input record: its date (null when the
\* day-shift encodes none) and its category
RecordFacts(df) ==
    LET F[i \in 0..Len(df)] ==
            IF i = 0 THEN <<>>
            ELSE Append(F[i - 1],
                        [date |-> IF RefParseable(df[i].DAY_SHIFT)
                                  THEN parse_day_shift_to_date(df[i].DAY_SHIFT)
                                  ELSE None,
                         category |-> RefCategory(df[i].ENTITY_STATE)])
    IN  F[Len(df)]

\* the input records that belong to an output row and to a category
RecordsOf(df, facts, agg, category) ==
    {k \in 1..Len(df) :
        /\ facts[k].date = Some(agg.state_date)
        /\ df[k].ENTITY = agg.ENTITY
        /\ df[k].FAB = agg.FAB
        /\ df[k].FAB_ENTITY = agg.FAB_ENTITY
        /\ facts[k].category = category}

\* hours_in_state summed over a set of input records
RefHours(df, records) ==
    LET F[i \in 0..Len(df)] ==
            IF i = 0 THEN 0
            ELSE F[i - 1] + (IF i \in records THEN df[i].HOURS_IN_STATE ELSE 0)
    IN  F[Len(df)]

\* C23: in every output row each of running_hours, idle_hours, down_hours
\* and bagged_hours is the sum of hours_in_state over the input records
\* with a parseable date that have the row's (entity, fab, fab_entity, date)
\* and fall in that category, and 0 when there is no such record.
C23_CategoryHoursAreSums ==
    StatesDone =>
        \A facts \in {RecordFacts(entity_states_df)} :
        \A i \in 1..Len(state_hours_df) :
            LET a == state_hours_df[i]
                df == entity_states_df
            IN  /\ a.running_hours
                       = RefHours(df, RecordsOf(df, facts, a, "Running"))
                /\ a.idle_hours = RefHours(df, RecordsOf(df, facts, a, "Idle"))
                /\ a.down_hours = RefHours(df, RecordsOf(df, facts, a, "Down"))
                /\ a.bagged_hours
                       = RefHours(df, RecordsOf(df, facts, a, "Bagged"))
                /\ \A c \in {"Running", "Idle", "Down", "Bagged"} :
                       RecordsOf(df, facts, a, c) = {} =>
                           (CASE c = "Running" -> a.running_hours
                              [] c = "Idle" -> a.idle_hours
                              [] c = "Down" -> a.down_hours
                              [] c = "Bagged" -> a.bagged_hours) = 0

\* C23 witness: two running records of one group give one row with the
\* hours of both as running_hours and 0 in the other categories
C23_Witness ==
    /\ StatesDone
    /\ Len(entity_states_df) = 2
    /\ Len(state_hours_df) = 1
    /\ entity_states_df[1].ENTITY_STATE = Some(UP)
    /\ entity_states_df[2].ENTITY_STATE = Some(UP)
    /\ state_hours_df[1].running_hours
           = entity_states_df[1].HOURS_IN_STATE + entity_states_df[2].HOURS_IN_STATE
    /\ state_hours_df[1].idle_hours = 0
    /\ state_hours_df[1].down_hours = 0
    /\ state_hours_df[1].bagged_hours = 0

\* the input records with a parseable date of an output row's entity and
\* date, under any fab
RecordsOfEntityDate(df, facts, agg) ==
    {k \in 1..Len(df) :
        /\ facts[k].date = Some(agg.state_date)
        /\ df[k].ENTITY = agg.ENTITY}

\* C24: when an (entity, state_date) is aggregated under several fabs, the
\* row retained is the one derived from the records that come later in the
\* input: the last input record of that entity and date is a record of the
\* retained row's fab.
C24_LaterRecordsWin ==
    StatesDone =>
        \A facts \in {RecordFacts(entity_states_df)} :
        \A i \in 1..Len(state_hours_df) :
            LET a == state_hours_df[i]
                all == RecordsOfEntityDate(entity_states_df, facts, a)
                last == CHOOSE k \in all : \A j \in all : j <= k
            IN  /\ all # {}
                /\ entity_states_df[last].FAB = a.FAB
                /\ entity_states_df[last].FAB_ENTITY = a.FAB_ENTITY

----------------------------------------------------------------------------
(* Claims about the replacement flag and the values of a result *)

\* a discovery (found) by a primary keyword whose change from the previous
\* row is below the threshold
DropOfPrimary(found, prev_opt) ==
    /\ found # None
    /\ prev_opt # None
    /\ IsPrimary(found[1].keyword)
    /\ InIndex(prev_opt[1], found[1].col)
    /\ Get(prev_opt[1], found[1].col) # None
    /\ found[1].value - Get(prev_opt[1], found[1].col)[1] < replacement_threshold

\* C25: when the primary counter drops below the threshold and the result
\* is switched to the fallback pair with its non-negative change, the
\* result still has part_replacement_detected = TRUE (and the replacement
\* note before the fallback note): a recovered row is reported as a
\* replacement.
C25_FlagSurvivesRecovery ==
    \A found \in {RefFind(current_row[1], AllKeywords)},
       fallback \in {RefFind(current_row[1], fallback_keywords)} :
    (RowDone /\ DropOfPrimary(found, previous_row)
       /\ fallback # None
       /\ InIndex(previous_row[1], fallback[1].col)
       /\ Get(previous_row[1], fallback[1].col) # None
       /\ fallback[1].value - Get(previous_row[1], fallback[1].col)[1] >= 0) =>
        /\ result[1].counter_keyword_used # None
        /\ ~IsPrimary(result[1].counter_keyword_used[1])
        /\ result[1].wafers_produced
               = Some(fallback[1].value
                      - Get(previous_row[1], fallback[1].col)[1])
        /\ result[1].part_replacement_detected = TRUE
        /\ result[1].calculation_notes
               = <<"Part replacement", "Used fallback counter">>
                  \o (IF running_hours_arg > 0 THEN <<>>
                      ELSE <<"No running hours - cannot calculate wafers/hour">>)

\* C25 witness: the primary counter drops 1006 -> 5, the fallback counter
\* rises 5 -> 7: the result is on the fallback counter with change 2 and
\* the flag set
C25_Witness ==
    /\ RowDone
    /\ previous_row # None
    /\ result[1].counter_column_used = Some(APCCounter)
    /\ result[1].counter_previous_value = Some(5)
    /\ result[1].counter_current_value = Some(7)
    /\ result[1].counter_change = Some(2)
    /\ result[1].part_replacement_detected = TRUE
    /\ InIndex(previous_row[1], FocusCounter)
    /\ Get(previous_row[1], FocusCounter) = Some(1006)
    /\ Get(current_row[1], FocusCounter) = Some(5)

\* C26: a result with part_replacement_detected has a non-null
\* counter_change >= 0 and wafers_produced equal to it; a negative
\* counter_change is found only in results without the flag.
C26_FlaggedChangeNonNegative ==
    RowDone =>
        LET res == result[1]
        IN  /\ res.part_replacement_detected =>
                   /\ res.counter_change # None
                   /\ res.counter_change[1] >= 0
                   /\ res.wafers_produced # None
                   /\ res.wafers_produced = res.counter_change
            /\ (res.counter_change # None /\ res.counter_change[1] < 0) =>
                   res.part_replacement_detected = FALSE

\* C26 witness: a drop of 1001 without running hours: flagged, the change
\* of -1001 replaced by 0, wafers_produced 0, no rate
C26_Witness ==
    /\ RowDone
    /\ running_hours_arg = 0
    /\ result[1].part_replacement_detected = TRUE
    /\ result[1].counter_current_value = Some(5)
    /\ result[1].counter_previous_value = Some(1006)
    /\ result[1].counter_change = Some(0)
    /\ result[1].wafers_produced = Some(0)
    /\ result[1].wafers_per_hour = None

ClampNote == "Counter change set to 0 (part replacement)"

HasNote(res, text) ==
    \E n \in 1..Len(res.calculation_notes) : res.calculation_notes[n] = text

\* C27: in a result with a non-null counter_change, counter_previous_value
\* is the previous row's value of the column counter_column_used names and
\* counter_current_value the current row's value of it; counter_change is
\* current - previous, except after the clamp, where counter_change is 0
\* while current - previous is negative.
C27_ValuesOfColumnUsed ==
    (RowDone /\ result[1].counter_change # None) =>
        LET res == result[1]
        IN  /\ previous_row # None
            /\ res.counter_column_used # None
            /\ InIndex(current_row[1], res.counter_column_used[1])
            /\ InIndex(previous_row[1], res.counter_column_used[1])
            /\ res.counter_current_value # None
            /\ res.counter_previous_value # None
            /\ res.counter_current_value
                   = Get(current_row[1], res.counter_column_used[1])
            /\ res.counter_previous_value
                   = Get(previous_row[1], res.counter_column_used[1])
            /\ LET diff == res.counter_current_value[1]
                              - res.counter_previous_value[1]
               IN  IF HasNote(res, ClampNote)
                   THEN res.counter_change = Some(0) /\ diff < 0
                   ELSE res.counter_change = Some(diff)

\* C27 witness: the primary counter drops 1006 -> 5 and the previous row
\* has no column for the usable fallback counter: the result keeps the
\* primary pair, with counter_change 0 beside a difference of -1001
C27_Witness ==
    /\ RowDone
    /\ previous_row # None
    /\ ~InIndex(previous_row[1], APCCounter)
    /\ Get(current_row[1], APCCounter) = Some(7)
    /\ result[1].counter_column_used = Some(FocusCounter)
    /\ result[1].counter_current_value = Some(5)
    /\ result[1].counter_previous_value = Some(1006)
    /\ result[1].counter_change = Some(0)
    /\ HasNote(result[1], ClampNote)

\* the one column Discovery over the fallback keywords returns cannot
\* replace the primary counter: the previous row has no such column, or a
\* null there, or the change is negative
DiscoveredFallbackFails(found, fallback, prev_opt) ==
    /\ DropOfPrimary(found, prev_opt)
    /\ fallback # None
    /\ \/ ~InIndex(prev_opt[1], fallback[1].col)
       \/ Get(prev_opt[1], fallback[1].col) = None
       \/ fallback[1].value - Get(prev_opt[1], fallback[1].col)[1] < 0

\* C28: on a replacement of the primary counter, when the one column that
\* Discovery over the fallback keywords returns is absent from the previous
\* row, null there or has a negative change, the result keeps the primary
\* column, keyword, current and previous value with counter_change 0,
\* whatever the other fallback columns hold.
C28_OnlyDiscoveredFallbackTried ==
    \A found \in {RefFind(current_row[1], AllKeywords)},
       fallback \in {RefFind(current_row[1], fallback_keywords)} :
    (RowDone /\ DiscoveredFallbackFails(found, fallback, previous_row)) =>
        /\ result[1].counter_column_used = Some(found[1].col)
        /\ result[1].counter_keyword_used = Some(found[1].keyword)
        /\ result[1].counter_current_value = Some(found[1].value)
        /\ result[1].counter_previous_value
               = Get(previous_row[1], found[1].col)
        /\ IsPrimary(result[1].counter_keyword_used[1])
        /\ result[1].part_replacement_detected = TRUE
        /\ result[1].counter_change = Some(0)
        /\ result[1].wafers_produced = Some(0)
        /\ ~HasNote(result[1], "Used fallback counter")

\* C28 witness: the primary counter drops 1006 -> 5, the counter of the
\* first fallback keyword is null in the previous row, the counter of the
\* second fallback keyword rises 5 -> 7 and is not used
C28_Witness ==
    /\ RowDone
    /\ previous_row # None
    /\ previous_row[1].index = RowColumns
    /\ Get(previous_row[1], APCCounter) = None
    /\ Get(current_row[1], APCCounter) = Some(7)
    /\ Get(previous_row[1], ESCCounter) = Some(5)
    /\ Get(current_row[1], ESCCounter) = Some(7)
    /\ result[1].counter_column_used = Some(FocusCounter)
    /\ result[1].part_replacement_detected = TRUE
    /\ result[1].counter_change = Some(0)

\* every field of the row that matches a keyword holds 0 or null
AllZeroOrNull(cur) ==
    \A j \in 1..Len(cur.index) :
        (\E k \in 1..Len(AllKeywords) : Matches(AllKeywords[k], cur.index[j]))
            => cur.vals[j] \in {None, Some(0)}

\* C29: a row whose keyword-matching counter fields all hold 0 or null
\* gives the "no counter found" result, without flag and without change,
\* whatever the previous row holds; a replacement is flagged only on a row
\* whose counter value is strictly positive.
C29_ZeroIsNoCounter ==
    RowDone =>
        /\ AllZeroOrNull(current_row[1]) =>
               /\ NothingComputed(result[1])
               /\ result[1].calculation_notes = NoCounterNote
        /\ result[1].part_replacement_detected =>
               /\ ~AllZeroOrNull(current_row[1])
               /\ result[1].counter_current_value # None
               /\ result[1].counter_current_value[1] > 0
               /\ Get(current_row[1], result[1].counter_column_used[1])
                      = result[1].counter_current_value

\* C29 witness: the primary counter goes 1006 -> 0 and the fallback
\* counters are 0 or null: no counter found, no flag
C29_Witness ==
    /\ RowDone
    /\ previous_row # None
    /\ InIndex(previous_row[1], FocusCounter)
    /\ Get(previous_row[1], FocusCounter) = Some(1006)
    /\ Get(current_row[1], FocusCounter) = Some(0)
    /\ Get(current_row[1], APCCounter) = Some(0)
    /\ result[1].part_replacement_detected = FALSE
    /\ result[1].counter_change = None
    /\ result[1].calculation_notes = NoCounterNote

\* total_hours summed over the rows of the output
SumTotalHours(out) ==
    LET F[i \in 0..Len(out)] ==
            IF i = 0 THEN 0 ELSE F[i - 1] + out[i].total_hours
    IN  F[Len(out)]

\* the input records with a parseable date
Parseable(facts) == {k \in 1..Len(facts) : facts[k].date # None}

\* the input records of the groups that have a row in the output
RetainedRecords(df, facts, out) ==
    {k \in Parseable(facts) :
        \E i \in 1..Len(out) :
            /\ out[i].ENTITY = df[k].ENTITY
            /\ out[i].FAB = df[k].FAB
            /\ out[i].FAB_ENTITY = df[k].FAB_ENTITY
            /\ Some(out[i].state_date) = facts[k].date}

\* no (entity, date) of the input occurs under two fabs
OneFabPerEntityDate(df, facts) ==
    \A k, l \in Parseable(facts) :
        (df[k].ENTITY = df[l].ENTITY /\ facts[k].date = facts[l].date)
            => (df[k].FAB = df[l].FAB /\ df[k].FAB_ENTITY = df[l].FAB_ENTITY)

\* C30 as claimed: total_hours summed over the output rows is hours_in_state
\* summed over the input records with a parseable date.
C30_HoursConserved ==
    StatesDone =>
        SumTotalHours(state_hours_df)
            = RefHours(entity_states_df,
                       Parseable(RecordFacts(entity_states_df)))

\* C30 amended: total_hours summed over the output rows is hours_in_state
\* summed over the input records with a parseable date whose (entity, fab,
\* fab_entity, date) group has a row in the output: grouping and pivot lose
\* no hours, the deduplication loses the hours of the groups it drops; the
\* sum is that of all records with a parseable date when no (entity, date)
\* occurs under more than one fab.
C30_HoursConservedUpToDedup ==
    StatesDone =>
        \A facts \in {RecordFacts(entity_states_df)} :
            /\ SumTotalHours(state_hours_df)
                   = RefHours(entity_states_df,
                              RetainedRecords(entity_states_df, facts,
                                              state_hours_df))
            /\ OneFabPerEntityDate(entity_states_df, facts) =>
                   SumTotalHours(state_hours_df)
                       = RefHours(entity_states_df, Parseable(facts))

\* C30 witness: one entity and date under two fabs: the output is one row
\* with the hours of one record, those of the other record are gone
C30_Witness ==
    /\ StatesDone
    /\ Len(entity_states_df) = 2
    /\ Parseable(RecordFacts(entity_states_df)) = {1, 2}
    /\ ~OneFabPerEntityDate(entity_states_df, RecordFacts(entity_states_df))
    /\ Len(state_hours_df) = 1
    /\ SumTotalHours(state_hours_df) = entity_states_df[1].HOURS_IN_STATE
    /\ RefHours(entity_states_df, Parseable(RecordFacts(entity_states_df)))
           = SumTotalHours(state_hours_df) + entity_states_df[2].HOURS_IN_STATE

====
